---- MODULE Spec2Model ----
\* Connection manager (BlockchainProviderService), chain adapter registry
\* (ChainAdapterRegistry) and the injected wallet it talks to, as a state
\* machine.  Every asynchronous method is a task that is suspended at its
\* awaits; the code between two awaits is one atomic action (single-threaded
\* event loop).
EXTENDS Integers, Sequences, FiniteSets, Bags, TLC

\* ---------------------------------------------------------------- bounds
MaxTasks == 2
MaxProviders == 2
MaxListeners == 1
MaxStimuli == 2
MaxSubscribers == 2
MaxInstances == 3
MaxParams == 2
MaxTime == 3
MaxGets == 2
MaxEvictions == 1

\* ------------------------------------------------------ program constants
Networks == {"ethereum_mainnet", "ethereum_sepolia", "polygon", "bsc", "arbitrum"}

ChainIdOf(n) ==
  CASE n = "ethereum_mainnet" -> 1
    [] n = "ethereum_sepolia" -> 11155111
    [] n = "polygon" -> 137
    [] n = "bsc" -> 56
    [] n = "arbitrum" -> 42161

UnknownChainCode == 4902
\* codes a wallet request settles with (0: the request succeeded);
\* 4001 is the code of a request the user rejected
RequestCodes == {0, UnknownChainCode, 4001}

\* ------------------------------------------------------ environment inputs
\* networks the callers ask for, chain ids the wallet can be on, accounts
NetInputs == {"bsc", "arbitrum"}
ListenerNets == {"bsc"}
WalletChains == {1, 56}
\* chain ids of a wallet that is moved between configured networks and one
\* that is not configured
ChainInputs == {1, 11155111, 56, 42161, 999}
Accounts == {"0xa1", "0xa2"}
Listeners == {"l1"}

\* the callbacks callers subscribe, and what each does when it is invoked:
\* l1 returns, l2 throws, l3 subscribes l1, l4 unsubscribes l1 and itself
Callbacks == {"l1", "l2", "l3", "l4"}

Behaviour(l) ==
  CASE l = "l1" -> <<>>
    [] l = "l2" -> <<[op |-> "throw", arg |-> "null"]>>
    [] l = "l3" -> <<[op |-> "add", arg |-> "l1"]>>
    [] l = "l4" -> <<[op |-> "remove", arg |-> "l1"], [op |-> "remove", arg |-> "l4"]>>

\* ------------------------------------------------------------ null values
Null == "null"
NullChain == 0
NoProvider == [kind |-> "none", id |-> 0]
NoAdapter == [id |-> 0, key |-> Null, cls |-> Null, cfg |-> Null, network |-> Null, prov |-> NoProvider]

DISCONNECTED == "disconnected"
CONNECTING == "connecting"
CONNECTED == "connected"
ERROR == "error"

\* the state the constructor builds, and the one disconnect() publishes
ClearedState ==
  [status |-> DISCONNECTED, account |-> Null, chainId |-> NullChain,
   network |-> NullChain, provider |-> NoProvider, error |-> Null]

NoState ==
  [status |-> "none", account |-> Null, chainId |-> NullChain,
   network |-> NullChain, provider |-> NoProvider, error |-> Null]

\* --------------------------------------------------------------- adapters
\* BaseChainAdapter.getNetworkFromConfig: the predicate of find() compares the
\* config's chain id with itself, so the first enum entry is always returned
GetNetworkFromConfig(cfg) == "ethereum_mainnet"

\* the adapter constructed by the switch of createAdapter
NewAdapter(n, p, i) ==
  LET cls == CASE n \in {"ethereum_mainnet", "ethereum_sepolia", "arbitrum"} -> "EthereumAdapter"
               [] n = "bsc" -> "BscAdapter"
               [] n = "polygon" -> "PolygonAdapter"
      cfg == IF n = "arbitrum" THEN "ethereum_mainnet" ELSE n
  IN [id |-> i, key |-> n, cls |-> cls, cfg |-> cfg,
      network |-> GetNetworkFromConfig(cfg), prov |-> p]

IsCompatible(a, c) ==
  CASE a.cls = "EthereumAdapter" -> c \in {1, 11155111}
    [] a.cls = "BscAdapter" -> c = 56
    [] a.cls = "PolygonAdapter" -> c = 137
    [] OTHER -> FALSE

\* a lookup that never finds the stored adapter
IndexOfKeyMissing(reg, n) == 0

\* index of the registry entry stored under key n, 0 if none
IndexOfKey(reg, n) ==
  IF \E i \in 1..Len(reg) : reg[i].key = n
  THEN CHOOSE i \in 1..Len(reg) : reg[i].key = n
  ELSE 0

\* a createAdapter that never looks for a stored adapter
CreateAdapterAlways(reg, n, p, i) == <<NewAdapter(n, p, i), Append(reg, NewAdapter(n, p, i))>>

\* ChainAdapterRegistry.createAdapter: <<adapter returned, registry after>>
CreateAdapter(reg, n, p, i) ==
  IF IndexOfKey(reg, n) # 0
  THEN <<reg[IndexOfKey(reg, n)], reg>>
  ELSE <<NewAdapter(n, p, i), Append(reg, NewAdapter(n, p, i))>>

\* ChainAdapterRegistry.findAdapterForChainId: <<adapter or NoAdapter, registry after>>
FindAdapterForChainId(reg, c, p, i) ==
  IF \E k \in 1..Len(reg) : IsCompatible(reg[k], c)
  THEN LET k == CHOOSE k \in 1..Len(reg) :
                  /\ IsCompatible(reg[k], c)
                  /\ \A j \in 1..(k - 1) : ~IsCompatible(reg[j], c)
       IN <<reg[k], reg>>
  ELSE IF \E n \in Networks : ChainIdOf(n) = c
       THEN CreateAdapter(reg, CHOOSE n \in Networks : ChainIdOf(n) = c, p, i)
       ELSE <<NoAdapter, reg>>

\* ChainAdapterRegistry.removeAdapter: the registry without the entry of n
RemoveAdapter(reg, n) == SelectSeq(reg, LAMBDA a : a.key # n)

\* ChainAdapterRegistry.clearAdapters
ClearAdapters(reg) == <<>>

\* ------------------------------------------------------------------ state
VARIABLES
  provider,            \* BlockchainProviderService.provider
  connectionState,     \* BlockchainProviderService.connectionState
  connectionListeners, \* BlockchainProviderService.connectionListeners
  activeAdapter,       \* BlockchainProviderService.activeAdapter
  adapters,            \* ChainAdapterRegistry.adapters, in insertion order
  adapterCount,        \* adapters constructed so far (instance identity)
  provCount,           \* transports constructed so far (instance identity)
  hasWallet,           \* window.ethereum is present
  walletChain,         \* chain the wallet is on
  walletAccount,       \* account the wallet exposes, Null when locked
  walletHandlers,      \* handler functions attached to window.ethereum
  stimuli,             \* async calls started and wallet events emitted so far
  tasks,               \* suspended async calls (a bag)
  published,           \* observer: states passed to updateConnectionState by the step just taken
  invoked,             \* observer: listener invocations made by the step just taken, in order
  delivered,           \* observer: state last handed to each subscribed listener
  last,                \* observer: the step just taken and what it returned
  instance,            \* BlockchainCacheService.instance is set
  cache,               \* BlockchainCacheService.cache, in insertion order
  stats,               \* BlockchainCacheService.stats
  storage,             \* window.localStorage, in the order of Storage.key(i)
  now,                 \* Date.now()
  timers,              \* interval timers set up by setInterval and still running
  probe                \* observer: get calls and capacity evictions counted from outside

vars == <<provider, connectionState, connectionListeners, activeAdapter, adapters,
          adapterCount, provCount, hasWallet, walletChain, walletAccount,
          walletHandlers, stimuli, tasks, published, invoked, delivered, last,
          instance, cache, stats, storage, now, timers, probe>>

registryVars == <<adapters, adapterCount>>
countVars == <<provCount, stimuli>>
walletVars == <<hasWallet, walletChain, walletAccount, walletHandlers>>
managerVars == <<provider, connectionState, activeAdapter>>
cacheVars == <<instance, cache, stats, storage, now, timers, probe>>

Range(s) == {s[i] : i \in 1..Len(s)}

\* a suspended call: kind of call, await it is suspended at, network argument,
\* transport it constructed, whether switchNetwork awaits it, state at the
\* start of the switchNetwork call, wallet requests issued so far
Task(kind, pc, net, prov, via, pre, reqs) ==
  [kind |-> kind, pc |-> pc, net |-> net, prov |-> prov, via |-> via,
   pre |-> pre, reqs |-> reqs]

\* what is recorded of a step: the call that returned in it (or "step"), its
\* network argument, the transport the call constructed, what it returned
\* ("state", "true", "false", "rejected", or "none" for a void return),
\* whether the operation behind it succeeded, the state returned, the state
\* at the start of a switchNetwork call, the wallet requests the call made
Step(act, net, prov, ret, ok, state, pre, reqs) ==
  [act |-> act, net |-> net, prov |-> prov, ret |-> ret, ok |-> ok,
   state |-> state, pre |-> pre, reqs |-> reqs]

Plain(act) == Step(act, Null, NoProvider, "none", TRUE, NoState, NoState, <<>>)

TaskCount == BagCardinality(tasks)
AddTask(t) == tasks (+) SetToBag({t})
DropTask(t) == tasks (-) SetToBag({t})
MoveTask(t, u) == (tasks (-) SetToBag({t})) (+) SetToBag({u})

\* updateConnectionState: the merged state ({...state, ...partial})
Merge(cs, partial) ==
  [f \in DOMAIN cs |-> IF f \in DOMAIN partial THEN partial[f] ELSE cs[f]]

\* a publication made before the handler has assigned transport and adapter
StaleManagerView == [provider |-> provider, adapter |-> activeAdapter]

\* what a listener sees of the manager when it is invoked in this step:
\* getProvider() and getAdapter(); every handler assigns both fields before
\* it calls updateConnectionState
ManagerView == [provider |-> provider', adapter |-> activeAdapter']

\* one invocation: listener(this.connectionState), made by a notification
\* round ("notify") or by addConnectionListener ("subscribe")
Call(l, by, s) == [listener |-> l, by |-> by, state |-> s]

\* the invocations of a step together with what each saw of the manager
Seen(calls) ==
  [i \in 1..Len(calls) |->
     [listener |-> calls[i].listener, by |-> calls[i].by, state |-> calls[i].state,
      seen |-> ManagerView]]

\* a run of listener invocations: arr is the array object forEach iterates,
\* cur is this.connectionListeners, same tells whether cur still is that
\* object, calls are the invocations so far, threw whether the invocation
\* under way has thrown
Round(ls) == [arr |-> ls, cur |-> ls, same |-> TRUE, calls |-> <<>>, threw |-> FALSE]

\* this.connectionListeners.push(l): mutates the array in place
Push(c, l) ==
  [c EXCEPT !.cur = Append(@, l), !.arr = IF c.same THEN Append(@, l) ELSE @]

\* removeConnectionListener(l): filter() builds a new array
Unsubscribe(c, l) ==
  [c EXCEPT !.cur = SelectSeq(@, LAMBDA x : x # l), !.same = FALSE]

RECURSIVE Invoke(_, _, _, _)

\* addConnectionListener(l): push, then invoke l with the current state
Subscribe(c, l, s) == Invoke(l, "subscribe", s, Push(c, l))

RECURSIVE RunBody(_, _, _)

\* the body of a callback: a throw ends it, the calls it makes run in turn
RunBody(cmds, s, c) ==
  IF cmds = <<>> \/ c.threw
  THEN c
  ELSE CASE Head(cmds).op = "throw" -> [c EXCEPT !.threw = TRUE]
         [] Head(cmds).op = "add" -> RunBody(Tail(cmds), s, Subscribe(c, Head(cmds).arg, s))
         [] Head(cmds).op = "remove" -> RunBody(Tail(cmds), s, Unsubscribe(c, Head(cmds).arg))

Invoke(l, by, s, c) ==
  RunBody(Behaviour(l), s, [c EXCEPT !.calls = Append(@, Call(l, by, s))])

\* Array.prototype.forEach: the range of indices is fixed before the first
\* callback; elements appended during the iteration are not visited
LastVisited(n, arr) == n

RECURSIVE ForEach(_, _, _, _)

\* connectionListeners.forEach(listener => { try { listener(state) } catch {} })
ForEach(i, n, s, c) ==
  IF i > LastVisited(n, c.arr)
  THEN c
  ELSE ForEach(i + 1, n, s, [Invoke(c.arr[i], "notify", s, c) EXCEPT !.threw = FALSE])

\* one notification round over the listeners ls
Notify(ls, s) == ForEach(1, Len(ls), s, Round(ls))

\* state last handed to each listener that is subscribed after the run c
Deliver(c) ==
  [l \in Callbacks |->
     IF l \notin Range(c.cur) THEN NoState
     ELSE IF \E i \in 1..Len(c.calls) : c.calls[i].listener = l
     THEN LET i == CHOOSE i \in 1..Len(c.calls) :
                     /\ c.calls[i].listener = l
                     /\ \A j \in (i + 1)..Len(c.calls) : c.calls[j].listener # l
          IN c.calls[i].state
     ELSE delivered[l]]

\* updateConnectionState: store the merged state, then hand it to every
\* subscribed listener
UpdateConnectionState(s) ==
  LET c == Notify(connectionListeners, s)
  IN /\ connectionState' = s
     /\ published' = <<s>>
     /\ connectionListeners' = c.cur
     /\ invoked' = Seen(c.calls)
     /\ delivered' = Deliver(c)

\* two updateConnectionState calls in one synchronous stretch
UpdateConnectionStateTwice(s1, s2) ==
  LET c1 == Notify(connectionListeners, s1)
      c2 == Notify(c1.cur, s2)
      c == [c2 EXCEPT !.calls = c1.calls \o c2.calls]
  IN /\ connectionState' = s2
     /\ published' = <<s1, s2>>
     /\ connectionListeners' = c.cur
     /\ invoked' = Seen(c.calls)
     /\ delivered' = Deliver(c)

\* a stretch of code that does not call updateConnectionState
NoUpdate ==
  /\ published' = <<>>
  /\ invoked' = <<>>
  /\ UNCHANGED <<connectionState, connectionListeners, delivered>>

\* Function.prototype.bind: every call yields a function object that is
\* identical to no function made before
FreshBind(hs) == IF hs = {} THEN 1 ELSE 1 + CHOOSE m \in hs : \A x \in hs : x <= m

\* setupEventListeners: ethereum.on(event, this.handleX.bind(this))
SetupEventListeners(hs) == hs \cup {FreshBind(hs)}

\* removeEventListeners: ethereum.removeListener(event, this.handleX.bind(this))
RemoveEventListeners(hs) == hs \ {FreshBind(hs)}

\* the manager, the registry and the observers after construction
ManagerFresh ==
  /\ provider = NoProvider
  /\ connectionState = ClearedState
  /\ connectionListeners = <<>>
  /\ activeAdapter = NoAdapter
  /\ adapters = <<>>
  /\ adapterCount = 0
  /\ provCount = 0
  /\ stimuli = 0
  /\ walletAccount = Null
  /\ walletHandlers = {}
  /\ tasks = EmptyBag
  /\ published = <<>>
  /\ invoked = <<>>
  /\ delivered = [l \in Callbacks |-> NoState]
  /\ last = Plain("init")

\* the cache module is not loaded: no instance, no timer, an empty store
CacheAbsent ==
  /\ instance = FALSE
  /\ cache = <<>>
  /\ stats = [hits |-> 0, misses |-> 0, evictions |-> 0]
  /\ storage = <<>>
  /\ now = 1
  /\ timers = 0
  /\ probe = [gets |-> 0, evictions |-> 0]

ManagerInit ==
  /\ ManagerFresh
  /\ CacheAbsent

Init ==
  /\ ManagerInit
  /\ hasWallet \in BOOLEAN
  /\ walletChain \in WalletChains

\* ------------------------------------------------------------- disconnect
\* body of disconnect(); also run by handleDisconnect and by
\* handleAccountsChanged([])
DoDisconnect ==
  IF provider # NoProvider
  THEN /\ walletHandlers' = IF hasWallet /\ provider.kind = "browser"
                            THEN RemoveEventListeners(walletHandlers)
                            ELSE walletHandlers
       /\ activeAdapter' = NoAdapter
       /\ provider' = NoProvider
       /\ UpdateConnectionState(ClearedState)
  ELSE /\ NoUpdate
       /\ UNCHANGED <<walletHandlers, activeAdapter, provider>>

Disconnect ==
  /\ DoDisconnect
  /\ last' = Plain("disconnect")
  /\ UNCHANGED <<registryVars, countVars, hasWallet, cacheVars, walletChain, walletAccount, tasks>>

\* ------------------------------------------------------------- connectRpc
\* updateConnectionState({status: CONNECTING, error: null})
Connecting(cs) == Merge(cs, [status |-> CONNECTING, error |-> Null])

\* a catch block that publishes Error without recording the cause
FailedWithoutCause(cs, err) == Merge(cs, [status |-> ERROR])

\* updateConnectionState({status: ERROR, error}) of the catch blocks
Failed(cs, err) == Merge(cs, [status |-> ERROR, error |-> err])

\* a Connected update that leaves the account of the previous connection
RpcConnectedKeepsAccount(cs, c, p) ==
  Merge(cs, [status |-> CONNECTED, chainId |-> c, network |-> c, provider |-> p,
             error |-> Null])

\* the update of connectRpcProvider after a handshake that answered chain c
RpcConnected(cs, c, p) ==
  Merge(cs, [status |-> CONNECTED, account |-> Null, chainId |-> c,
             network |-> c, provider |-> p, error |-> Null])

\* the update of connectBrowserWallet after the signer resolved
WalletConnected(cs, a, c, p) ==
  Merge(cs, [status |-> CONNECTED, account |-> a, chainId |-> c,
             network |-> c, provider |-> p, error |-> Null])

\* what the caller of a settled connectRpcProvider gets: the call itself
\* returns the state; switchNetwork, when it awaited the call, returns true
RpcReturn(t, ok, s) ==
  IF t.via = "switch"
  THEN Step("switchNetworkReturn", t.net, t.prov, "true", ok, NoState, t.pre, <<>>)
  ELSE Step("connectRpcReturn", t.net, t.prov, "state", ok, s, NoState, <<>>)

\* connectRpcProvider up to its await: publish Connecting, construct the
\* transport, start the race of handshake and timer
RpcBegin(n, via, pre) ==
  /\ TaskCount < MaxTasks
  /\ provCount < MaxProviders
  /\ stimuli < MaxStimuli
  /\ UNCHANGED <<provider, activeAdapter, registryVars, walletVars, cacheVars>>
  /\ UpdateConnectionState(Connecting(connectionState))
  /\ provCount' = provCount + 1
  /\ stimuli' = stimuli + 1
  /\ tasks' = AddTask(Task("connectRpc", "race", n, [kind |-> "rpc", id |-> provCount + 1],
                           via, pre, <<>>))

ConnectRpcStart(n) ==
  /\ RpcBegin(n, "direct", NoState)
  /\ last' = Plain("step")

\* a race that lets a handshake result through after the timer has fired
HandshakeAppliedLate(t) == t.pc \in {"race", "late"}

\* Promise.race settles with whichever of handshake and timer settles first;
\* a handshake result that arrives after the timer is dropped
HandshakeApplied(t) == t.pc = "race"

\* chain id the endpoint of the task's network reports
HandshakeChains(t) == IF t.kind = "connectRpc" THEN {ChainIdOf(t.net)} ELSE {}

\* the handshake answers with chain id c
ConnectRpcAnswer(t, c) ==
  /\ t.kind = "connectRpc"
  /\ IF HandshakeApplied(t)
     THEN LET made == CreateAdapter(adapters, t.net, t.prov, adapterCount + 1)
              s == RpcConnected(connectionState, c, t.prov)
          IN /\ provider' = t.prov
             /\ activeAdapter' = made[1]
             /\ adapters' = made[2]
             /\ adapterCount' = IF Len(made[2]) > Len(adapters)
                                THEN adapterCount + 1 ELSE adapterCount
             /\ UpdateConnectionState(s)
             /\ last' = RpcReturn(t, TRUE, s)
     ELSE /\ NoUpdate
          /\ UNCHANGED <<provider, activeAdapter, registryVars>>
          /\ last' = Plain("lateHandshake")
  /\ tasks' = DropTask(t)
  /\ UNCHANGED <<countVars, walletVars, cacheVars>>

\* the handshake is refused by the endpoint
ConnectRpcFail(t) ==
  /\ t.kind = "connectRpc"
  /\ UNCHANGED <<provider, activeAdapter, registryVars, countVars, walletVars, cacheVars>>
  /\ IF HandshakeApplied(t)
     THEN LET s == Failed(connectionState, "rpcFailed")
          IN /\ UpdateConnectionState(s)
             /\ last' = RpcReturn(t, FALSE, s)
     ELSE /\ NoUpdate
          /\ last' = Plain("lateHandshake")
  /\ tasks' = DropTask(t)

\* the 10 s timer fires first; the handshake stays in flight
ConnectRpcTimeout(t) ==
  /\ t.kind = "connectRpc"
  /\ t.pc = "race"
  /\ UNCHANGED <<provider, activeAdapter, registryVars, countVars, walletVars, cacheVars>>
  /\ LET s == Failed(connectionState, "timeout")
     IN /\ UpdateConnectionState(s)
        /\ last' = RpcReturn(t, FALSE, s)
  /\ tasks' = MoveTask(t, Task("connectRpc", "late", t.net, t.prov, "direct", NoState, <<>>))

\* ---------------------------------------------------------- connectWallet
\* connectBrowserWallet up to its first await: publish Connecting; without an
\* injected wallet the throw is caught at once and Error is published and
\* returned; otherwise construct the BrowserProvider and request the accounts
ConnectWalletStart ==
  /\ stimuli < MaxStimuli
  /\ stimuli' = stimuli + 1
  /\ UNCHANGED <<provider, activeAdapter, registryVars, walletVars, cacheVars>>
  /\ IF ~hasWallet
     THEN LET s == Failed(Connecting(connectionState), "noWallet")
          IN /\ UpdateConnectionStateTwice(Connecting(connectionState), s)
             /\ last' = Step("connectWalletReturn", Null, NoProvider, "state", FALSE,
                             s, NoState, <<>>)
             /\ UNCHANGED <<tasks, provCount>>
     ELSE /\ TaskCount < MaxTasks
          /\ provCount < MaxProviders
          /\ UpdateConnectionState(Connecting(connectionState))
          /\ provCount' = provCount + 1
          /\ tasks' = AddTask(Task("connectWallet", "requestAccounts", Null,
                                   [kind |-> "browser", id |-> provCount + 1],
                                   "direct", NoState, <<>>))
          /\ last' = Plain("step")

\* the catch block of connectBrowserWallet
WalletFailed(t, err) ==
  LET s == Failed(connectionState, err)
  IN /\ UpdateConnectionState(s)
     /\ last' = Step("connectWalletReturn", Null, t.prov, "state", FALSE, s, NoState, <<>>)
     /\ tasks' = DropTask(t)

\* eth_requestAccounts settles: the user approves (the wallet unlocks an
\* account), rejects, or the wallet answers with an empty list
ConnectWalletAccounts(t, answer) ==
  /\ t.kind = "connectWallet"
  /\ t.pc = "requestAccounts"
  /\ UNCHANGED <<provider, activeAdapter, registryVars, countVars, hasWallet, cacheVars,
                 walletChain, walletHandlers>>
  /\ IF answer = "approved"
     THEN /\ walletAccount' = IF walletAccount = Null THEN "0xa1" ELSE walletAccount
          /\ tasks' = MoveTask(t, [t EXCEPT !.pc = "getSigner"])
          /\ last' = Plain("step")
          /\ NoUpdate
     ELSE /\ WalletFailed(t, answer)
          /\ UNCHANGED walletAccount

\* getNetwork, getSigner and getAddress settle: on success the transport and
\* adapter are set, Connected is published and the wallet handlers installed
ConnectWalletResolve(t, ok) ==
  /\ t.kind = "connectWallet"
  /\ t.pc = "getSigner"
  /\ IF ok /\ walletAccount # Null
     THEN LET found == FindAdapterForChainId(adapters, walletChain, t.prov, adapterCount + 1)
              s == WalletConnected(connectionState, walletAccount, walletChain, t.prov)
          IN /\ provider' = t.prov
             /\ activeAdapter' = found[1]
             /\ adapters' = found[2]
             /\ adapterCount' = IF Len(found[2]) > Len(adapters)
                                THEN adapterCount + 1 ELSE adapterCount
             /\ UpdateConnectionState(s)
             /\ walletHandlers' = SetupEventListeners(walletHandlers)
             /\ last' = Step("connectWalletReturn", Null, t.prov, "state", TRUE,
                             s, NoState, <<>>)
             /\ tasks' = DropTask(t)
     ELSE /\ UNCHANGED <<provider, activeAdapter, registryVars, walletHandlers>>
          /\ WalletFailed(t, "walletFailed")
  /\ UNCHANGED <<countVars, hasWallet, cacheVars, walletChain, walletAccount>>

\* ---------------------------------------------------------- switchNetwork
\* a catch that takes every failure code for the unknown-chain code
IsAnyFailure(code) == code # 0

\* error.code === 4902
IsUnknownChain(code) == code = UnknownChainCode

\* the boolean switchNetwork returns from its wallet branch
SwitchReturn(t, flag, reqs) ==
  Step("switchNetworkReturn", t.net, NoProvider, IF flag THEN "true" ELSE "false",
       flag, NoState, t.pre, reqs)

\* switchNetwork up to its first await: not Connected, or Connected over RPC:
\* await connectRpcProvider; Connected over the wallet: request the switch
\* (without a wallet object the throw is caught and false returned)
SwitchNetworkStart(n) ==
  IF connectionState.status # CONNECTED \/ provider.kind # "browser"
  THEN /\ RpcBegin(n, "switch", connectionState)
       /\ last' = Plain("step")
  ELSE /\ stimuli < MaxStimuli
       /\ stimuli' = stimuli + 1
       /\ NoUpdate
       /\ IF ~hasWallet
          THEN /\ last' = Step("switchNetworkReturn", n, NoProvider, "false", FALSE,
                               NoState, connectionState, <<>>)
               /\ UNCHANGED tasks
          ELSE /\ TaskCount < MaxTasks
               /\ tasks' = AddTask(Task("switchNetwork", "switch", n, NoProvider, "wallet",
                                        connectionState, <<>>))
               /\ last' = Plain("step")
       /\ UNCHANGED <<provider, activeAdapter, registryVars, provCount, walletVars, cacheVars>>

\* a wallet request of switchNetwork settles with code (0: success)
SwitchNetworkRequest(t, code) ==
  /\ t.kind = "switchNetwork"
  /\ LET reqs == Append(t.reqs, [method |-> t.pc, code |-> code])
     IN CASE t.pc = "switch" /\ Len(t.reqs) = 0 ->
               IF code = 0
               THEN /\ walletChain' = ChainIdOf(t.net)
                    /\ tasks' = DropTask(t)
                    /\ last' = SwitchReturn(t, TRUE, reqs)
               ELSE IF IsUnknownChain(code)
               THEN /\ tasks' = MoveTask(t, [t EXCEPT !.pc = "add", !.reqs = reqs])
                    /\ last' = Plain("step")
                    /\ UNCHANGED walletChain
               ELSE /\ tasks' = DropTask(t)
                    /\ last' = SwitchReturn(t, FALSE, reqs)
                    /\ UNCHANGED walletChain
          [] t.pc = "add" ->
               IF code = 0
               THEN /\ tasks' = MoveTask(t, [t EXCEPT !.pc = "switch", !.reqs = reqs])
                    /\ last' = Plain("step")
                    /\ UNCHANGED walletChain
               ELSE /\ tasks' = DropTask(t)
                    /\ last' = SwitchReturn(t, FALSE, reqs)
                    /\ UNCHANGED walletChain
          [] t.pc = "switch" /\ Len(t.reqs) > 0 ->
               /\ tasks' = DropTask(t)
               /\ last' = SwitchReturn(t, code = 0, reqs)
               /\ walletChain' = IF code = 0 THEN ChainIdOf(t.net) ELSE walletChain
  /\ NoUpdate
  /\ UNCHANGED <<provider, activeAdapter, registryVars, countVars,
                 hasWallet, cacheVars, walletAccount, walletHandlers>>

\* ------------------------------------------------------------ wallet events
\* events are emitted once a handler is attached; the wallet calls every
\* attached handler in turn; each call of an async handler runs up to its
\* await and leaves one suspended task
Spawn(t) == tasks (+) (t :> Cardinality(walletHandlers))

\* accountsChanged(list): handleAccountsChanged up to its await
EmitAccountsChanged(a) ==
  /\ walletHandlers # {}
  /\ stimuli < MaxStimuli
  /\ stimuli' = stimuli + 1
  /\ walletAccount' = a
  /\ IF a = Null
     THEN /\ DoDisconnect
          /\ last' = Plain("disconnect")
          /\ UNCHANGED tasks
     ELSE /\ last' = Plain("step")
          /\ NoUpdate
          /\ UNCHANGED <<provider, activeAdapter, walletHandlers>>
          /\ IF provider.kind = "browser"
             THEN /\ TaskCount + Cardinality(walletHandlers) <= MaxTasks
                  /\ tasks' = Spawn(Task("accountsChanged", "getSigner", Null, provider,
                                         "direct", NoState, <<>>))
             ELSE UNCHANGED tasks
  /\ UNCHANGED <<registryVars, provCount, hasWallet, cacheVars, walletChain>>

\* an account update that also republishes the status
AccountChangedAsConnected(cs, a) == Merge(cs, [status |-> CONNECTED, account |-> a])

\* updateConnectionState({account: address})
AccountChanged(cs, a) == Merge(cs, [account |-> a])

\* getSigner/getAddress of handleAccountsChanged settle
AccountsChangedResolve(t, ok) ==
  /\ t.kind = "accountsChanged"
  /\ UNCHANGED <<provider, activeAdapter, registryVars, countVars, walletVars, cacheVars>>
  /\ IF ok /\ walletAccount # Null
     THEN UpdateConnectionState(AccountChanged(connectionState, walletAccount))
     ELSE NoUpdate
  /\ tasks' = DropTask(t)
  /\ last' = Plain("accountsChanged")

\* chainChanged(c): handleChainChanged up to its await
EmitChainChanged(c) ==
  /\ walletHandlers # {}
  /\ stimuli < MaxStimuli
  /\ stimuli' = stimuli + 1
  /\ walletChain' = c
  /\ last' = Plain("step")
  /\ NoUpdate
  /\ IF provider.kind = "browser"
     THEN /\ TaskCount + Cardinality(walletHandlers) <= MaxTasks
          /\ tasks' = Spawn(Task("chainChanged", "getNetwork", Null, provider,
                                 "direct", NoState, <<>>))
     ELSE UNCHANGED tasks
  /\ UNCHANGED <<provider, activeAdapter, registryVars, provCount,
                 hasWallet, cacheVars, walletAccount, walletHandlers>>

\* a handler that keeps whatever adapter is active
KeepsAnyAdapter(a, c) == a # NoAdapter

\* this.activeAdapter && this.activeAdapter.isCompatible(chainId)
KeepsAdapter(a, c) == a # NoAdapter /\ IsCompatible(a, c)

\* updateConnectionState({chainId, network})
ChainChanged(cs, c) == Merge(cs, [chainId |-> c, network |-> c])

\* getNetwork of handleChainChanged settles
ChainChangedResolve(t, ok) ==
  /\ t.kind = "chainChanged"
  /\ UNCHANGED <<provider, countVars, walletVars, cacheVars>>
  /\ IF ok
     THEN LET keep == KeepsAdapter(activeAdapter, walletChain)
              found == IF keep THEN <<activeAdapter, adapters>>
                       ELSE FindAdapterForChainId(adapters, walletChain, provider,
                                                  adapterCount + 1)
          IN /\ activeAdapter' = found[1]
             /\ adapters' = found[2]
             /\ adapterCount' = IF Len(found[2]) > Len(adapters)
                                THEN adapterCount + 1 ELSE adapterCount
             /\ UpdateConnectionState(ChainChanged(connectionState, walletChain))
     ELSE /\ NoUpdate
          /\ UNCHANGED <<activeAdapter, registryVars>>
  /\ tasks' = DropTask(t)
  /\ last' = Plain("chainChanged")

\* disconnect event: handleDisconnect
EmitDisconnect ==
  /\ walletHandlers # {}
  /\ stimuli < MaxStimuli
  /\ stimuli' = stimuli + 1
  /\ DoDisconnect
  /\ last' = Plain("disconnect")
  /\ UNCHANGED <<registryVars, provCount, hasWallet, cacheVars, walletChain, walletAccount, tasks>>

\* -------------------------------------------------------------- listeners
\* addConnectionListener: push, then one unguarded listener(this.connectionState)
AddConnectionListener(l) ==
  /\ UNCHANGED <<managerVars, registryVars, countVars, walletVars, cacheVars, tasks>>
  /\ LET c == Subscribe(Round(connectionListeners), l, connectionState)
     IN /\ connectionListeners' = c.cur
        /\ invoked' = Seen(c.calls)
        /\ delivered' = Deliver(c)
        /\ last' = Step("addConnectionListener", l, NoProvider,
                        IF c.threw THEN "threw" ELSE "none", ~c.threw,
                        NoState, NoState, <<>>)
  /\ published' = <<>>

\* removeConnectionListener: filter out every registration of l
RemoveConnectionListener(l) ==
  /\ l \in Range(connectionListeners)
  /\ UNCHANGED <<managerVars, registryVars, countVars, walletVars, cacheVars, tasks>>
  /\ LET c == Unsubscribe(Round(connectionListeners), l)
     IN /\ connectionListeners' = c.cur
        /\ delivered' = Deliver(c)
  /\ invoked' = <<>>
  /\ published' = <<>>
  /\ last' = Step("removeConnectionListener", l, NoProvider, "none", TRUE,
                  NoState, NoState, <<>>)

Next ==
  \/ Disconnect
  \/ ConnectWalletStart
  \/ \E n \in NetInputs : ConnectRpcStart(n)
  \/ \E n \in NetInputs : SwitchNetworkStart(n)
  \/ \E t \in BagToSet(tasks) : \E c \in HandshakeChains(t) : ConnectRpcAnswer(t, c)
  \/ \E t \in BagToSet(tasks) : ConnectRpcFail(t)
  \/ \E t \in BagToSet(tasks) : ConnectRpcTimeout(t)
  \/ \E t \in BagToSet(tasks) : \E answer \in {"approved", "rejected", "noAccounts"} :
       ConnectWalletAccounts(t, answer)
  \/ \E t \in BagToSet(tasks) : \E ok \in BOOLEAN : ConnectWalletResolve(t, ok)
  \/ \E t \in BagToSet(tasks) : \E code \in RequestCodes : SwitchNetworkRequest(t, code)
  \/ \E t \in BagToSet(tasks) : \E ok \in BOOLEAN : AccountsChangedResolve(t, ok)
  \/ \E t \in BagToSet(tasks) : \E ok \in BOOLEAN : ChainChangedResolve(t, ok)
  \/ \E a \in Accounts \cup {Null} : EmitAccountsChanged(a)
  \/ \E c \in WalletChains : EmitChainChanged(c)
  \/ EmitDisconnect
  \/ \E l \in Listeners :
       Len(connectionListeners) < MaxListeners /\ AddConnectionListener(l)
  \/ \E l \in Listeners : RemoveConnectionListener(l)

Spec == Init /\ [][Next]_vars

\* ------------------------------------------------- manager with callbacks
\* the manager without an injected wallet, driven by callers whose listeners
\* throw, subscribe and unsubscribe while they are being notified
ListenerInit == Init /\ ~hasWallet /\ walletChain = 1

ListenerNext ==
  \/ Disconnect
  \/ ConnectWalletStart
  \/ \E n \in ListenerNets : ConnectRpcStart(n)
  \/ \E t \in BagToSet(tasks) : \E c \in HandshakeChains(t) : ConnectRpcAnswer(t, c)
  \/ \E t \in BagToSet(tasks) : ConnectRpcFail(t)
  \/ \E l \in Callbacks :
       Len(connectionListeners) < MaxSubscribers /\ AddConnectionListener(l)
  \/ \E l \in Callbacks : RemoveConnectionListener(l)

ListenerSpec == ListenerInit /\ [][ListenerNext]_vars

\* ------------------------------------------------------ registry alone
\* the registry singleton called directly, over all configured networks
Transports == {[kind |-> "rpc", id |-> 1], [kind |-> "browser", id |-> 2]}

\* what is recorded of a registry call: the method, its network or chain id
\* argument, the transport passed, the adapter returned
RegistryCall(act, n, c, p, a) ==
  [act |-> act, net |-> n, chain |-> c, prov |-> p, adapter |-> a]

RegistryIdle ==
  UNCHANGED <<managerVars, connectionListeners, countVars, walletVars, cacheVars, tasks,
              published, invoked, delivered>>

RegistryCreate(n, p) ==
  /\ adapterCount < MaxInstances
  /\ LET made == CreateAdapter(adapters, n, p, adapterCount + 1)
     IN /\ adapters' = made[2]
        /\ adapterCount' = IF Len(made[2]) > Len(adapters)
                           THEN adapterCount + 1 ELSE adapterCount
        /\ last' = RegistryCall("createAdapter", n, NullChain, p, made[1])
  /\ RegistryIdle

RegistryFind(c, p) ==
  /\ adapterCount < MaxInstances
  /\ LET found == FindAdapterForChainId(adapters, c, p, adapterCount + 1)
     IN /\ adapters' = found[2]
        /\ adapterCount' = IF Len(found[2]) > Len(adapters)
                           THEN adapterCount + 1 ELSE adapterCount
        /\ last' = RegistryCall("findAdapterForChainId", Null, c, p, found[1])
  /\ RegistryIdle

RegistryRemove(n) ==
  /\ adapters' = RemoveAdapter(adapters, n)
  /\ last' = RegistryCall("removeAdapter", n, NullChain, NoProvider, NoAdapter)
  /\ UNCHANGED adapterCount
  /\ RegistryIdle

RegistryClear ==
  /\ adapters' = ClearAdapters(adapters)
  /\ last' = RegistryCall("clearAdapters", Null, NullChain, NoProvider, NoAdapter)
  /\ UNCHANGED adapterCount
  /\ RegistryIdle

RegistryInit ==
  /\ ManagerInit
  /\ hasWallet = FALSE
  /\ walletChain = 1

RegistryNext ==
  \/ \E n \in Networks : \E p \in Transports : RegistryCreate(n, p)
  \/ \E c \in ChainInputs : \E p \in Transports : RegistryFind(c, p)
  \/ \E n \in Networks : RegistryRemove(n)
  \/ RegistryClear

RegistrySpec == RegistryInit /\ [][RegistryNext]_vars

\* ------------------------------------------------------- cache key maker
\* An optional field of KeyOptions is <<>> when absent and <<v>> when given;
\* a string is the sequence of its characters; a key is the sequence of the
\* pieces the template literals append, in order.
ParamNames == {"B", "a", "b"}
ParamValues == {1, 2}

\* UTF-16 code unit of a character, the order Array.prototype.sort uses
CodeUnit(ch) ==
  CASE ch = "A" -> 65
    [] ch = "B" -> 66
    [] ch = "a" -> 97
    [] ch = "b" -> 98
    [] ch = "c" -> 99

\* String.prototype.toLowerCase
Lower(ch) ==
  CASE ch = "A" -> "a"
    [] ch = "B" -> "b"
    [] OTHER -> ch

ToLowerCase(str) == [i \in 1..Len(str) |-> Lower(str[i])]

\* Object.keys(additionalParams): the names in insertion order
ObjectKeys(params) == [i \in 1..Len(params) |-> params[i].name]

\* additionalParams[name]
ParamValue(params, name) ==
  LET i == CHOOSE i \in 1..Len(params) : params[i].name = name
  IN params[i].value

RECURSIVE SortNames(_)

\* the names of a set in ascending code unit order
SortNames(S) ==
  IF S = {}
  THEN <<>>
  ELSE LET m == CHOOSE x \in S : \A y \in S : CodeUnit(x) <= CodeUnit(y)
       IN <<m>> \o SortNames(S \ {m})

\* keys taken in insertion order, without the sort
UnsortedKeys(params) == ObjectKeys(params)

\* Object.keys(additionalParams).sort()
SortedKeys(params) == SortNames(Range(ObjectKeys(params)))

RECURSIVE ParamPieces(_, _)

\* the loop over sortedKeys: key += `${paramKey}:${additionalParams[paramKey]}:`
ParamPieces(names, params) ==
  IF names = <<>>
  THEN <<>>
  ELSE <<Head(names), ":", ToString(ParamValue(params, Head(names))), ":">>
         \o ParamPieces(Tail(names), params)

\* if (x) for an optional number, string (spelled out in characters, or
\* kept whole as a name) or object
TruthyNumber(opt) == opt # <<>> /\ opt[1] # 0
TruthyString(opt) == opt # <<>> /\ opt[1] # <<>>
TruthyName(opt) == opt # <<>> /\ opt[1] # ""
TruthyObject(opt) == opt # <<>>

\* BlockchainCacheService.generateKey
GenerateKey(o) ==
  <<o.prefix, ":">>
    \o (IF TruthyString(o.address)
        THEN <<"addr", ":">> \o ToLowerCase(o.address[1]) \o <<":">> ELSE <<>>)
    \o (IF TruthyNumber(o.chainId)
        THEN <<"chain", ":", ToString(o.chainId[1]), ":">> ELSE <<>>)
    \o (IF TruthyNumber(o.blockNumber)
        THEN <<"block", ":", ToString(o.blockNumber[1]), ":">> ELSE <<>>)
    \o (IF TruthyName(o.network)
        THEN <<"net", ":", o.network[1], ":">> ELSE <<>>)
    \o (IF TruthyObject(o.additionalParams)
        THEN ParamPieces(SortedKeys(o.additionalParams[1]), o.additionalParams[1])
        ELSE <<>>)

\* the additionalParams objects: up to MaxParams distinct names, in every
\* insertion order
ParamObjects ==
  {ps \in UNION {[1..k -> [name : ParamNames, value : ParamValues]] : k \in 0..MaxParams} :
     \A i, j \in 1..Len(ps) : ps[i].name = ps[j].name => i = j}

\* the chainId, blockNumber and network given together in a descriptor
KeyScopes ==
  {[chainId |-> <<>>, blockNumber |-> <<>>, network |-> <<>>],
   [chainId |-> <<56>>, blockNumber |-> <<>>, network |-> <<"bsc">>],
   [chainId |-> <<56>>, blockNumber |-> <<7>>, network |-> <<>>],
   [chainId |-> <<0>>, blockNumber |-> <<7>>, network |-> <<"bsc">>]}

\* the descriptors callers pass
KeyInputs ==
  {[prefix |-> "balance", address |-> a, chainId |-> sc.chainId,
    blockNumber |-> sc.blockNumber, network |-> sc.network,
    additionalParams |-> ps] :
     a \in {<<>>, <<<<"a", "B">>>>, <<<<"A", "b">>>>},
     sc \in KeyScopes,
     ps \in {<<>>} \cup {<<po>> : po \in ParamObjects}}

\* what is recorded of a generateKey call: the descriptor and the key returned
KeyCall(o, k) == [act |-> "generateKey", options |-> o, key |-> k]

GenerateKeyCall(o) ==
  /\ last' = KeyCall(o, GenerateKey(o))
  /\ UNCHANGED <<managerVars, connectionListeners, registryVars, countVars,
                 walletVars, cacheVars, tasks, published, invoked, delivered>>

KeyInit ==
  /\ ManagerInit
  /\ hasWallet = FALSE
  /\ walletChain = 1

KeyNext == \E o \in KeyInputs : GenerateKeyCall(o)

KeySpec == KeyInit /\ [][KeyNext]_vars

\* ---------------------------------------------------------------- cache
\* The clock counts in units of the default time-to-live.  A string key is the
\* sequence of its pieces, as generateKey makes it; the empty string is <<>>.
Values == {"v1", "v2"}
DefaultTtl == 1
DefaultMaxSize == 100
StoragePrefix == "sh1fr_blockchain_cache_"

\* a number of an entry: finite, Infinity, or the null JSON.parse gives back
Num(n) == [kind |-> "num", n |-> n]
Infinity == [kind |-> "inf", n |-> 0]
JsonNull == [kind |-> "null", n |-> 0]

\* x < n, with null converted to 0
LessThan(x, n) ==
  CASE x.kind = "num" -> x.n < n
    [] x.kind = "inf" -> FALSE
    [] x.kind = "null" -> 0 < n

\* x >= n, with null converted to 0
AtLeast(x, n) ==
  CASE x.kind = "num" -> x.n >= n
    [] x.kind = "inf" -> TRUE
    [] x.kind = "null" -> 0 >= n

CacheEntry(v, t, e) == [value |-> v, timestamp |-> t, expiresAt |-> e]

\* JSON.stringify(entry): Infinity is written as null
JsonStringify(entry) ==
  [entry EXCEPT !.expiresAt = IF @.kind = "inf" THEN JsonNull ELSE @]

\* key.startsWith(prefix)
StartsWith(key, prefix) ==
  /\ Len(prefix) <= Len(key)
  /\ SubSeq(key, 1, Len(prefix)) = prefix

\* key.includes(part)
Includes(key, part) ==
  \E i \in 0..(Len(key) - Len(part)) : SubSeq(key, i + 1, i + Len(part)) = part

\* ---- Map<string, CacheEntry>: a sequence of [key, entry] in insertion order
MapIndex(m, k) ==
  IF \E i \in 1..Len(m) : m[i].key = k
  THEN CHOOSE i \in 1..Len(m) : m[i].key = k
  ELSE 0

MapHas(m, k) == MapIndex(m, k) # 0

MapGet(m, k) == m[MapIndex(m, k)].entry

MapSet(m, k, e) ==
  IF MapHas(m, k)
  THEN [m EXCEPT ![MapIndex(m, k)].entry = e]
  ELSE Append(m, [key |-> k, entry |-> e])

MapDelete(m, k) == SelectSeq(m, LAMBDA x : x.key # k)

MapKeys(m) == [i \in 1..Len(m) |-> m[i].key]

\* ---- localStorage: a sequence of [key, data] in the order of Storage.key(i)
\* this.storagePrefix + key
FullKey(k) == <<StoragePrefix>> \o k

\* fullKey.startsWith(this.storagePrefix)
Namespaced(fullKey) == StartsWith(fullKey, <<StoragePrefix>>)

StorageIndex(st, fk) ==
  IF \E i \in 1..Len(st) : st[i].key = fk
  THEN CHOOSE i \in 1..Len(st) : st[i].key = fk
  ELSE 0

\* localStorage.setItem(fk, data): a new key is enumerated after the others
SetItem(st, fk, data) ==
  IF StorageIndex(st, fk) # 0
  THEN [st EXCEPT ![StorageIndex(st, fk)].data = data]
  ELSE Append(st, [key |-> fk, data |-> data])

\* localStorage.removeItem(fk)
RemoveItem(st, fk) == SelectSeq(st, LAMBDA x : x.key # fk)

\* the durable item is left where it is
KeepInLocalStorage(st, k) == st

\* removeFromLocalStorage(key)
RemoveFromLocalStorage(st, k) == RemoveItem(st, FullKey(k))

RECURSIVE ClearLoop(_, _)

\* the loop of clearLocalStorage: i runs up while items are removed under it
ClearLoop(i, st) ==
  IF i > Len(st)
  THEN st
  ELSE ClearLoop(i + 1, IF Namespaced(st[i].key) THEN RemoveItem(st, st[i].key) ELSE st)

ClearLocalStorage(st) == ClearLoop(1, st)

RECURSIVE LoadLoop(_, _, _, _)

\* the loop of loadFromLocalStorage: [cache, storage] after it; the key is
\* the full key without the prefix, the entry what JSON.parse gives back
LoadLoop(i, st, m, t) ==
  IF i > Len(st)
  THEN [cache |-> m, storage |-> st]
  ELSE IF Namespaced(st[i].key)
       THEN LET entry == st[i].data
            IN IF AtLeast(entry.expiresAt, t)
               THEN LoadLoop(i + 1, st, MapSet(m, Tail(st[i].key), entry), t)
               ELSE LoadLoop(i + 1, RemoveItem(st, st[i].key), m, t)
       ELSE LoadLoop(i + 1, st, m, t)

LoadFromLocalStorage(st, t) == LoadLoop(1, st, <<>>, t)

\* what localStorage.setItem does with a write: it takes it, throws the
\* DOMException named QuotaExceededError, or throws something else
WriteOutcomes == {"ok", "quota", "other"}

\* the outcomes of the writes one call can come to make, in order
Accepted == <<"ok">>
Writes == {Accepted, <<"other">>} \cup {<<"quota", x>> : x \in WriteOutcomes}

\* saveEntryToLocalStorage(key, entry) when setItem answers its attempts with
\* w: [storage, attempts, wiped] after it
SaveEntryToLocalStorage(st, k, entry, w) ==
  IF w[1] = "ok"
  THEN [storage |-> SetItem(st, FullKey(k), JsonStringify(entry)),
        attempts |-> 1, wiped |-> FALSE]
  ELSE IF w[1] = "quota"
       THEN [storage |-> IF w[2] = "ok"
                         THEN SetItem(ClearLocalStorage(st), FullKey(k), JsonStringify(entry))
                         ELSE ClearLocalStorage(st),
             attempts |-> 2, wiped |-> TRUE]
       ELSE [storage |-> st, attempts |-> 1, wiped |-> FALSE]

\* ---- set
\* an option left out of the options object is <<>>
NoOptions == [ttl |-> <<>>, maxSize |-> <<>>, persistToLocalStorage |-> <<>>]

\* options that set the capacity only
SizeOptions ==
  [ttl : {<<>>},
   maxSize : {<<>>, <<1>>, <<2>>},
   persistToLocalStorage : {<<>>}]

\* options that set the time-to-live and the persistence
ExpiryOptions ==
  [ttl : {<<>>, <<0>>, <<2>>},
   maxSize : {<<>>},
   persistToLocalStorage : {<<>>, <<FALSE>>}]

\* { ...this.defaultOptions, ...options }
MergedOptions(o) ==
  [ttl |-> IF o.ttl = <<>> THEN DefaultTtl ELSE o.ttl[1],
   maxSize |-> IF o.maxSize = <<>> THEN DefaultMaxSize ELSE o.maxSize[1],
   persistToLocalStorage |->
     IF o.persistToLocalStorage = <<>> THEN TRUE ELSE o.persistToLocalStorage[1]]

\* mergedOptions.ttl ? now + mergedOptions.ttl : Infinity
ExpiresAt(ttl, t) == IF ttl # 0 THEN Num(t + ttl) ELSE Infinity

RECURSIVE OldestScan(_, _, _, _)

\* the scan of evictOldest: the index of the first entry with the smallest
\* timestamp, 0 while oldestKey is null
OldestScan(m, i, best, bestT) ==
  IF i > Len(m)
  THEN best
  ELSE IF bestT = <<>> \/ m[i].entry.timestamp < bestT[1]
       THEN OldestScan(m, i + 1, i, <<m[i].entry.timestamp>>)
       ELSE OldestScan(m, i + 1, best, bestT)

OldestIndex(m) == OldestScan(m, 1, 0, <<>>)

\* if (oldestKey): a key was found and it is not the empty string
Evicts(m) == OldestIndex(m) # 0 /\ m[OldestIndex(m)].key # <<>>

\* the oldest entry is deleted without being counted
EvictOldestUncounted(m, st, s) ==
  IF OldestIndex(m) # 0 /\ m[OldestIndex(m)].key # <<>>
  THEN LET k == m[OldestIndex(m)].key
       IN [cache |-> MapDelete(m, k), storage |-> RemoveItem(st, <<StoragePrefix>> \o k),
           stats |-> s]
  ELSE [cache |-> m, storage |-> st, stats |-> s]

\* evictOldest: [cache, storage, stats] after it
EvictOldest(m, st, s) ==
  IF Evicts(m)
  THEN LET k == m[OldestIndex(m)].key
       IN [cache |-> MapDelete(m, k), storage |-> RemoveFromLocalStorage(st, k),
           stats |-> [s EXCEPT !.evictions = @ + 1]]
  ELSE [cache |-> m, storage |-> st, stats |-> s]

\* this.cache.size >= (mergedOptions.maxSize || this.defaultOptions.maxSize)
AtCapacity(m, o) ==
  Len(m) >= IF MergedOptions(o).maxSize # 0
            THEN MergedOptions(o).maxSize ELSE DefaultMaxSize

\* what is recorded of a cache call: the method, its key argument, what it
\* returned, the keys whose entries it deleted from the map
CacheCall(act, k, ret, removed) ==
  [act |-> act, key |-> k, ret |-> ret, removed |-> removed]

CacheIdle ==
  UNCHANGED <<managerVars, connectionListeners, registryVars, countVars,
              walletVars, tasks, published, invoked, delivered>>

\* ---- the operations of the cache
\* getInstance(): the first call constructs the service, which loads the
\* persisted entries and starts the sweep timer
GetInstance ==
  /\ IF instance
     THEN UNCHANGED <<instance, cache, storage, timers>>
     ELSE LET loaded == LoadFromLocalStorage(storage, now)
          IN /\ instance' = TRUE
             /\ cache' = loaded.cache
             /\ storage' = loaded.storage
             /\ timers' = timers + 1
  /\ last' = CacheCall("getInstance", <<>>, Null, <<>>)
  /\ UNCHANGED <<stats, now, probe>>
  /\ CacheIdle

\* set(key, value, options), with w what setItem answers; the call is
\* recorded with the setItem attempts it made and whether it wiped the storage
Set(k, v, o, w) ==
  /\ instance
  /\ LET merged == MergedOptions(o)
         entry == CacheEntry(v, now, ExpiresAt(merged.ttl, now))
         ev == IF AtCapacity(cache, o)
               THEN EvictOldest(cache, storage, stats)
               ELSE [cache |-> cache, storage |-> storage, stats |-> stats]
         saved == IF merged.persistToLocalStorage
                  THEN SaveEntryToLocalStorage(ev.storage, k, entry, w)
                  ELSE [storage |-> ev.storage, attempts |-> 0, wiped |-> FALSE]
     IN /\ cache' = MapSet(ev.cache, k, entry)
        /\ storage' = saved.storage
        /\ stats' = ev.stats
        /\ probe' = [probe EXCEPT !.evictions = @ + (Len(cache) - Len(ev.cache))]
        /\ last' = [act |-> "set", key |-> k, ret |-> Null,
                    removed |-> IF AtCapacity(cache, o) /\ Evicts(cache)
                                THEN <<cache[OldestIndex(cache)].key>> ELSE <<>>,
                    attempts |-> saved.attempts, wiped |-> saved.wiped]
  /\ UNCHANGED <<instance, now, timers>>
  /\ CacheIdle

\* get(key)
Get(k) ==
  /\ instance
  /\ IF ~MapHas(cache, k)
     THEN /\ stats' = [stats EXCEPT !.misses = @ + 1]
          /\ last' = CacheCall("get", k, Null, <<>>)
          /\ UNCHANGED <<cache, storage>>
     ELSE IF LessThan(MapGet(cache, k).expiresAt, now)
          THEN /\ cache' = MapDelete(cache, k)
               /\ storage' = RemoveFromLocalStorage(storage, k)
               /\ stats' = [stats EXCEPT !.misses = @ + 1]
               /\ last' = CacheCall("get", k, Null, <<k>>)
          ELSE /\ stats' = [stats EXCEPT !.hits = @ + 1]
               /\ last' = CacheCall("get", k, MapGet(cache, k).value, <<>>)
               /\ UNCHANGED <<cache, storage>>
  /\ probe' = [probe EXCEPT !.gets = @ + 1]
  /\ UNCHANGED <<instance, now, timers>>
  /\ CacheIdle

\* has(key)
Has(k) ==
  /\ instance
  /\ IF ~MapHas(cache, k)
     THEN /\ last' = CacheCall("has", k, FALSE, <<>>)
          /\ UNCHANGED <<cache, storage>>
     ELSE IF LessThan(MapGet(cache, k).expiresAt, now)
          THEN /\ cache' = MapDelete(cache, k)
               /\ storage' = RemoveFromLocalStorage(storage, k)
               /\ last' = CacheCall("has", k, FALSE, <<k>>)
          ELSE /\ last' = CacheCall("has", k, TRUE, <<>>)
               /\ UNCHANGED <<cache, storage>>
  /\ UNCHANGED <<instance, stats, now, timers, probe>>
  /\ CacheIdle

RECURSIVE RemoveLoop(_, _, _)

\* the loop over keysToRemove that the invalidate methods and the sweep
\* share: [cache, storage] after it
RemoveLoop(m, st, ks) ==
  IF ks = <<>>
  THEN [cache |-> m, storage |-> st]
  ELSE RemoveLoop(MapDelete(m, Head(ks)), RemoveFromLocalStorage(st, Head(ks)), Tail(ks))

RemoveKeys(ks) ==
  /\ cache' = RemoveLoop(cache, storage, ks).cache
  /\ storage' = RemoveLoop(cache, storage, ks).storage

\* every key with the prefix, an exact key among them
PrefixedKeys(m, s) == SelectSeq(MapKeys(m), LAMBDA k : StartsWith(k, s))

\* the keys invalidate(keyOrPrefix) deletes
InvalidatedKeys(m, s) ==
  IF MapHas(m, s) THEN <<s>> ELSE SelectSeq(MapKeys(m), LAMBDA k : StartsWith(k, s))

\* invalidate(keyOrPrefix)
Invalidate(s) ==
  /\ instance
  /\ RemoveKeys(InvalidatedKeys(cache, s))
  /\ last' = CacheCall("invalidate", s, Null, InvalidatedKeys(cache, s))
  /\ UNCHANGED <<instance, stats, now, timers, probe>>
  /\ CacheIdle

\* the keys invalidateForAddress(address) deletes: those that include
\* `addr:${normalizedAddress}:`
AddressKeys(m, a) ==
  SelectSeq(MapKeys(m),
            LAMBDA k : Includes(k, <<"addr", ":">> \o ToLowerCase(a) \o <<":">>))

\* invalidateForAddress(address)
InvalidateForAddress(a) ==
  /\ instance
  /\ RemoveKeys(AddressKeys(cache, a))
  /\ last' = CacheCall("invalidateForAddress", a, Null, AddressKeys(cache, a))
  /\ UNCHANGED <<instance, stats, now, timers, probe>>
  /\ CacheIdle

\* the keys invalidateForChain(chainId) deletes: those that include
\* `chain:${chainId}:`
ChainKeys(m, c) ==
  SelectSeq(MapKeys(m), LAMBDA k : Includes(k, <<"chain", ":", ToString(c), ":">>))

\* invalidateForChain(chainId)
InvalidateForChain(c) ==
  /\ instance
  /\ RemoveKeys(ChainKeys(cache, c))
  /\ last' = CacheCall("invalidateForChain", <<ToString(c)>>, Null, ChainKeys(cache, c))
  /\ UNCHANGED <<instance, stats, now, timers, probe>>
  /\ CacheIdle

\* clear()
Clear ==
  /\ instance
  /\ cache' = <<>>
  /\ storage' = ClearLocalStorage(storage)
  /\ last' = CacheCall("clear", <<>>, Null, MapKeys(cache))
  /\ UNCHANGED <<instance, stats, now, timers, probe>>
  /\ CacheIdle

\* getStats()
GetStats ==
  /\ instance
  /\ last' = CacheCall("getStats", <<>>,
                       [size |-> Len(cache), hits |-> stats.hits,
                        misses |-> stats.misses, evictions |-> stats.evictions],
                       <<>>)
  /\ UNCHANGED cacheVars
  /\ CacheIdle

\* the keys cleanupExpiredEntries collects
ExpiredKeys(m, t) ==
  SelectSeq(MapKeys(m), LAMBDA k : LessThan(MapGet(m, k).expiresAt, t))

\* a sweep timer fires: cleanupExpiredEntries()
CleanupExpiredEntries ==
  /\ timers > 0
  /\ RemoveKeys(ExpiredKeys(cache, now))
  /\ last' = CacheCall("cleanupExpiredEntries", <<>>, Null, ExpiredKeys(cache, now))
  /\ UNCHANGED <<instance, stats, now, timers, probe>>
  /\ CacheIdle

\* time passes
Tick ==
  /\ now < MaxTime
  /\ now' = now + 1
  /\ last' = CacheCall("tick", <<>>, Null, <<>>)
  /\ UNCHANGED <<instance, cache, stats, storage, timers, probe>>
  /\ CacheIdle

\* the page is reloaded: memory and timers are gone, localStorage stays, and
\* loading the module constructs the service again
Reload ==
  /\ instance
  /\ LET loaded == LoadFromLocalStorage(storage, now)
     IN /\ cache' = loaded.cache
        /\ storage' = loaded.storage
  /\ stats' = [hits |-> 0, misses |-> 0, evictions |-> 0]
  /\ probe' = [gets |-> 0, evictions |-> 0]
  /\ timers' = 1
  /\ last' = CacheCall("reload", <<>>, Null, <<>>)
  /\ UNCHANGED <<instance, now>>
  /\ CacheIdle

\* an item another part of the page keeps in localStorage
ForeignItem == [key |-> <<"theme">>, data |-> [text |-> "dark"]]

\* the keys callers use: the empty string, a key and an extension of it
PlainKeys == {<<>>, <<"a">>}

\* the module is being loaded in a page whose localStorage holds a foreign item
CacheInit ==
  /\ ManagerFresh
  /\ hasWallet = FALSE
  /\ walletChain = 1
  /\ instance = FALSE
  /\ cache = <<>>
  /\ stats = [hits |-> 0, misses |-> 0, evictions |-> 0]
  /\ storage = <<ForeignItem>>
  /\ now = 1
  /\ timers = 0
  /\ probe = [gets |-> 0, evictions |-> 0]

CacheNext ==
  \/ GetInstance
  \/ \E k \in PlainKeys : \E v \in {"v1"} : \E o \in SizeOptions :
       stats.evictions < MaxEvictions /\ Set(k, v, o, Accepted)
  \/ \E k \in PlainKeys : probe.gets < MaxGets /\ Get(k)
  \/ \E k \in PlainKeys : Has(k)
  \/ \E s \in PlainKeys : Invalidate(s)
  \/ Clear
  \/ GetStats
  \/ CleanupExpiredEntries
  \/ Tick
  \/ Reload

CacheSpec == CacheInit /\ [][CacheNext]_vars

\* the interval timer keeps firing for the lifetime of the process
CacheLiveSpec == CacheSpec /\ WF_vars(CleanupExpiredEntries)

\* ---- the cache under calls that choose the time-to-live and the persistence
ExpiryKeys == {<<"a">>}

ExpiryNext ==
  \/ GetInstance
  \/ \E k \in ExpiryKeys : \E v \in Values : \E o \in ExpiryOptions : Set(k, v, o, Accepted)
  \/ \E k \in ExpiryKeys : probe.gets < MaxGets /\ Get(k)
  \/ \E k \in ExpiryKeys : Has(k)
  \/ CleanupExpiredEntries
  \/ Tick
  \/ Reload

ExpirySpec == CacheInit /\ [][ExpiryNext]_vars

\* ---- the cache under keys made by generateKey
\* a descriptor with a prefix, an optional address, chain id and parameters
Descriptor(prefix, address, chainId, params) ==
  [prefix |-> prefix, address |-> address, chainId |-> chainId,
   blockNumber |-> <<>>, network |-> <<>>, additionalParams |-> params]

\* the descriptors whose results are cached: two addresses, a chain-wide
\* result, and a result of the "addr" family that is told apart by a parameter
CachedDescriptors ==
  {Descriptor("balance", <<<<"A">>>>, <<56>>, <<>>),
   Descriptor("balance", <<<<"a", "B">>>>, <<>>, <<>>),
   Descriptor("balance", <<>>, <<56>>, <<>>),
   Descriptor("addr", <<>>, <<>>, <<<<[name |-> "a", value |-> 1]>>>>)}

\* the addresses callers invalidate
AddressInputs == {<<"a">>, <<"A">>, <<"A", "b">>}

AddressNext ==
  \/ GetInstance
  \/ \E d \in CachedDescriptors : Set(GenerateKey(d), "v1", NoOptions, Accepted)
  \/ \E a \in AddressInputs : InvalidateForAddress(a)
  \/ \E c \in {56} : InvalidateForChain(c)
  \/ Tick

AddressSpec == CacheInit /\ [][AddressNext]_vars

\* ---- the cache over a localStorage that can refuse a write
QuotaKeys == {<<"a">>, <<"b">>}

QuotaNext ==
  \/ GetInstance
  \/ \E k \in QuotaKeys : \E v \in {"v1"} : \E w \in Writes : Set(k, v, NoOptions, w)
  \/ \E k \in QuotaKeys : probe.gets < MaxGets /\ Get(k)
  \/ \E s \in QuotaKeys : Invalidate(s)
  \/ Tick
  \/ Reload

QuotaSpec == CacheInit /\ [][QuotaNext]_vars

\* ------------------------------------------------ manager over the wallet
\* the manager connected through an injected wallet that changes accounts and
\* moves between chains
WalletInit ==
  /\ ManagerInit
  /\ hasWallet = TRUE
  /\ walletChain \in ChainInputs

WalletNext ==
  \/ Disconnect
  \/ ConnectWalletStart
  \/ \E t \in BagToSet(tasks) : \E answer \in {"approved", "rejected", "noAccounts"} :
       ConnectWalletAccounts(t, answer)
  \/ \E t \in BagToSet(tasks) : \E ok \in BOOLEAN : ConnectWalletResolve(t, ok)
  \/ \E t \in BagToSet(tasks) : \E ok \in BOOLEAN : AccountsChangedResolve(t, ok)
  \/ \E t \in BagToSet(tasks) : \E ok \in BOOLEAN : ChainChangedResolve(t, ok)
  \/ \E a \in Accounts \cup {Null} : EmitAccountsChanged(a)
  \/ \E c \in ChainInputs : EmitChainChanged(c)
  \/ EmitDisconnect
  \/ \E l \in Listeners :
       Len(connectionListeners) < MaxListeners /\ AddConnectionListener(l)

WalletSpec == WalletInit /\ [][WalletNext]_vars

\* ---- the cache under callers that all pass the same maxSize
BoundedOptions ==
  [ttl : {<<>>}, maxSize : {<<2>>}, persistToLocalStorage : {<<>>}]

BoundedKeys == {<<>>, <<"a">>, <<"b">>}

BoundedNext ==
  \/ GetInstance
  \/ \E k \in BoundedKeys : \E o \in BoundedOptions :
       stats.evictions < MaxEvictions /\ Set(k, "v1", o, Accepted)
  \/ \E k \in BoundedKeys : probe.gets < MaxGets /\ Get(k)
  \/ \E k \in BoundedKeys : Has(k)
  \/ \E s \in BoundedKeys : Invalidate(s)
  \/ Clear
  \/ CleanupExpiredEntries
  \/ Tick
  \/ Reload

BoundedSpec == CacheInit /\ [][BoundedNext]_vars

\* ------------------------------------------- manager after a wallet session
\* the page after connectBrowserWallet() succeeded on chain 1 and disconnect()
\* returned: the state is reset, the registry keeps the adapter the session
\* made, and the three handlers of setupEventListeners are still attached,
\* since removeEventListeners hands removeListener functions bound afresh;
\* calls and events are counted from here
SessionInit ==
  /\ provider = NoProvider
  /\ connectionState = ClearedState
  /\ connectionListeners = <<>>
  /\ activeAdapter = NoAdapter
  /\ adapters = FindAdapterForChainId(<<>>, 1, [kind |-> "browser", id |-> 1], 1)[2]
  /\ adapterCount = 1
  /\ provCount = 1
  /\ stimuli = 0
  /\ hasWallet = TRUE
  /\ walletChain = 1
  /\ walletAccount = "0xa1"
  /\ walletHandlers = RemoveEventListeners(SetupEventListeners({}))
  /\ tasks = EmptyBag
  /\ published = <<>>
  /\ invoked = <<>>
  /\ delivered = [l \in Callbacks |-> NoState]
  /\ last = Plain("disconnect")
  /\ CacheAbsent

SessionNext ==
  \/ Disconnect
  \/ \E n \in NetInputs : ConnectRpcStart(n)
  \/ \E t \in BagToSet(tasks) : \E c \in HandshakeChains(t) : ConnectRpcAnswer(t, c)
  \/ \E t \in BagToSet(tasks) : ConnectRpcFail(t)
  \/ \E t \in BagToSet(tasks) : ConnectRpcTimeout(t)
  \/ \E a \in Accounts \cup {Null} : EmitAccountsChanged(a)
  \/ \E c \in WalletChains : EmitChainChanged(c)
  \/ EmitDisconnect
  \/ \E l \in Listeners :
       Len(connectionListeners) < MaxListeners /\ AddConnectionListener(l)

SessionSpec == SessionInit /\ [][SessionNext]_vars

\* ================================================================ claims
\* the step just taken ran the body of disconnect() to its return
DisconnectReturned == last.act = "disconnect"

\* C1: immediately after disconnect() returns, the ConnectionState is the
\* all-null Disconnected state, whatever it was before the call
C1_DisconnectResetsState == DisconnectReturned => connectionState = ClearedState

\* C2: after disconnect() returns no handler installed by setupEventListeners
\* is still attached to the wallet object
C2_DisconnectRemovesHandlers == DisconnectReturned => walletHandlers = {}

\* C3: account is non-null only when status is Connected over the wallet
\* transport, and error is non-null only when status is Error
C3_AccountAndErrorInvariant ==
  /\ connectionState.account # Null =>
       connectionState.status = CONNECTED /\ connectionState.provider.kind = "browser"
  /\ connectionState.error # Null => connectionState.status = ERROR

\* the status changes of the transition diagram
AllowedTransitions ==
  {<<DISCONNECTED, CONNECTING>>, <<CONNECTING, CONNECTED>>, <<CONNECTING, ERROR>>,
   <<CONNECTED, DISCONNECTED>>}

\* the statuses the state went through in a step: before it, then after each update
StatusTrail(before, pubs) == <<before.status>> \o [i \in 1..Len(pubs) |-> pubs[i].status]

TrailAllowed(trail) ==
  \A i \in 1..(Len(trail) - 1) :
    trail[i] # trail[i + 1] => <<trail[i], trail[i + 1]>> \in AllowedTransitions

\* C4: every change of status is one of Disconnected->Connecting,
\* Connecting->Connected, Connecting->Error, Connected->Disconnected
C4_StatusTransitions ==
  [][TrailAllowed(StatusTrail(connectionState, published'))]_vars

\* a connect call returned in the step just taken
ConnectReturned == last.act \in {"connectWalletReturn", "connectRpcReturn"}

ConnectCauses == {"noWallet", "rejected", "noAccounts", "walletFailed", "rpcFailed", "timeout"}

\* the state was handed to every subscribed listener
DeliveredToAll(s) == \A l \in Range(connectionListeners) : delivered[l] = s

\* C5: connectWallet and connectRpc never reject; on every failure they
\* resolve with a state of status Error whose error is the cause, and that
\* state is the one published to all subscribers
C5_ConnectFailuresCaptured ==
  ConnectReturned =>
    /\ last.ret = "state"
    /\ ~last.ok =>
         /\ last.state.status = ERROR
         /\ last.state.error \in ConnectCauses
         /\ last.state = connectionState
         /\ published # <<>>
         /\ published[Len(published)] = last.state
         /\ DeliveredToAll(last.state)

\* a connectRpc timed out while a listener was subscribed
C5_Witness ==
  /\ last.act = "connectRpcReturn"
  /\ ~last.ok
  /\ last.state.error = "timeout"
  /\ connectionListeners # <<>>

\* C6: when the handshake of connectRpc(n) answers in time with chain id c,
\* the state returned and published is Connected with chainId c, null account,
\* null error and the new RPC transport, and the active adapter is the
\* registry's adapter for n, whatever the prior state
C6_RpcConnectPublishesConnected ==
  (last.act = "connectRpcReturn" /\ last.ok) =>
    /\ last.prov.kind = "rpc"
    /\ last.state = [status |-> CONNECTED, account |-> Null,
                     chainId |-> ChainIdOf(last.net), network |-> ChainIdOf(last.net),
                     provider |-> last.prov, error |-> Null]
    /\ connectionState = last.state
    /\ provider = last.prov
    /\ published = <<last.state>>
    /\ DeliveredToAll(last.state)
    /\ IndexOfKey(adapters, last.net) # 0
    /\ activeAdapter = adapters[IndexOfKey(adapters, last.net)]

\* a connectRpc succeeded after a wallet connection had been made
C6_Witness ==
  /\ last.act = "connectRpcReturn"
  /\ last.ok
  /\ walletHandlers # {}
  /\ \E i \in 1..Len(adapters) : adapters[i].prov.kind = "browser"

\* the timer of a connectRpc attempt fires in this step
TimeoutStep ==
  \E t \in BagToSet(tasks) :
    /\ t.kind = "connectRpc"
    /\ t.pc = "race"
    /\ tasks' = MoveTask(t, Task("connectRpc", "late", t.net, t.prov, "direct", NoState, <<>>))

\* the handshake of an attempt that already timed out settles in this step
LateStep == \E t \in BagToSet(tasks) : t.pc = "late" /\ tasks' = DropTask(t)

\* C7: when the timer fires first the call publishes Error with a non-null
\* error, and the handshake answer that arrives afterwards changes neither the
\* ConnectionState nor the transport nor the active adapter nor the registry
C7_LateHandshakeDiscarded ==
  [][/\ TimeoutStep =>
          /\ connectionState'.status = ERROR
          /\ connectionState'.error # Null
          /\ published' = <<connectionState'>>
     /\ LateStep =>
          /\ UNCHANGED <<connectionState, provider, activeAdapter, adapters>>
          /\ published' = <<>>]_vars

\* a late handshake was dropped while a newer attempt was under way
C7_Witness == last.act = "lateHandshake" /\ connectionState.status = CONNECTING

\* C8: switchNetwork never rejects, and whenever the switch fails the
\* ConnectionState after the call is the ConnectionState before the call
C8_SwitchFailureLeavesState ==
  last.act = "switchNetworkReturn" =>
    /\ last.ret # "rejected"
    /\ ~last.ok => connectionState = last.pre

\* C9: invoked while not Connected or while connected over RPC, switchNetwork(n)
\* returns true only if the resulting state is Connected to n, and returns
\* false when the RPC connect fails or times out
C9_SwitchFlagOverRpc ==
  (last.act = "switchNetworkReturn" /\ last.prov.kind = "rpc") =>
    /\ last.ret = "true" =>
         /\ connectionState.status = CONNECTED
         /\ connectionState.chainId = ChainIdOf(last.net)
         /\ connectionState.provider = last.prov
    /\ ~last.ok => last.ret = "false"

\* the wallet requests of a returned switchNetwork call and its flag agree
\* with the retry protocol
RequestsFollowProtocol(r, ret) ==
  /\ Len(r) >= 1
  /\ r[1].method = "switch"
  /\ r[1].code = 0 => Len(r) = 1 /\ ret = "true"
  /\ r[1].code \notin {0, UnknownChainCode} => Len(r) = 1 /\ ret = "false"
  /\ r[1].code = UnknownChainCode =>
       /\ Len(r) >= 2
       /\ r[2].method = "add"
       /\ r[2].code # 0 => Len(r) = 2 /\ ret = "false"
       /\ r[2].code = 0 =>
            /\ Len(r) = 3
            /\ r[3].method = "switch"
            /\ ret = (IF r[3].code = 0 THEN "true" ELSE "false")

\* switchNetwork returned from its wallet branch
WalletSwitchReturned ==
  last.act = "switchNetworkReturn" /\ last.prov = NoProvider /\ last.reqs # <<>>

\* the suspended wallet-branch switchNetwork calls
SwitchTasks(b) == {t \in BagToSet(b) : t.kind = "switchNetwork"}

\* a wallet-branch switchNetwork call ran in this step
WalletSwitchStep ==
  \/ SwitchTasks(tasks') # SwitchTasks(tasks)
  \/ \E t \in SwitchTasks(tasks) : CopiesIn(t, tasks') # CopiesIn(t, tasks)

\* C10: on a wallet connection, a first switch request failing with 4902 is
\* followed by exactly one add request and, only if that succeeds, exactly one
\* retried switch; the flag is true iff add and retry both succeed; any other
\* failure code gives false without an add request; and switchNetwork itself
\* makes no ConnectionState update
C10_WalletSwitchProtocol ==
  [][WalletSwitchStep =>
       /\ published' = <<>>
       /\ connectionState' = connectionState
       /\ WalletSwitchReturned' => RequestsFollowProtocol(last'.reqs, last'.ret)]_vars

\* an unknown chain was added and the retried switch succeeded
C10_Witness ==
  /\ WalletSwitchReturned
  /\ Len(last.reqs) = 3
  /\ last.reqs[1].code = UnknownChainCode
  /\ last.ret = "true"

\* the invocations a notification round made with state s
RoundCalls(calls, s) ==
  SelectSeq(calls, LAMBDA x : x.by = "notify" /\ x.state = s)

\* how often l is invoked in calls
TimesInvoked(calls, l) == Cardinality({i \in 1..Len(calls) : calls[i].listener = l})

\* position of the first registration of l in ls
FirstIndex(ls, l) == CHOOSE i \in 1..Len(ls) : ls[i] = l /\ \A j \in 1..(i - 1) : ls[j] # l

\* the first update of this step invoked each listener of ls exactly once with
\* the new state, in the order of ls, and invoked no other listener
NotifiedOnceInOrder(ls, calls, s) ==
  LET round == RoundCalls(calls, s)
  IN /\ \A l \in Range(ls) : TimesInvoked(round, l) = 1
     /\ \A i \in 1..Len(round) : round[i].listener \in Range(ls)
     /\ \A i, j \in 1..Len(round) :
          i < j => FirstIndex(ls, round[i].listener) <= FirstIndex(ls, round[j].listener)

\* a subscribe call returned in this step
SubscribeStep == last'.act = "addConnectionListener" /\ invoked' # <<>>

\* C11: subscribe invokes l exactly once with the current state before it
\* returns; every state update invokes each subscribed listener exactly once
\* with the new state, in subscription order; a listener that is not
\* subscribed is not invoked by an update
C11_ListenerNotification ==
  [][/\ SubscribeStep =>
          /\ invoked'[1].listener = last'.net
          /\ invoked'[1].by = "subscribe"
          /\ invoked'[1].state = connectionState
          /\ TimesInvoked(invoked', last'.net) = 1
     /\ published' # <<>> =>
          NotifiedOnceInOrder(connectionListeners, invoked', published'[1])]_vars

\* C12: a listener that throws prevents no other subscribed listener from
\* being notified, leaves no partial ConnectionState, and does not make the
\* operation that invoked it fail, be it an update or the subscribe call
C12_ListenerIsolation ==
  [][/\ published' # <<>> =>
          /\ \A l \in Range(connectionListeners) :
               TimesInvoked(RoundCalls(invoked', published'[1]), l) >= 1
          /\ connectionState' = published'[Len(published')]
     /\ last'.act = "addConnectionListener" => last'.ret # "threw"]_vars

\* a listener subscribed or unsubscribed while this step notified
ReentrantRound == published' # <<>> /\ connectionListeners' # connectionListeners

\* C13: when a listener subscribes or unsubscribes during a notification,
\* every listener subscribed at its start is still invoked exactly once by the
\* round, and a listener added during the round is not invoked by the round
C13_SnapshotIteration ==
  [][ReentrantRound =>
       NotifiedOnceInOrder(connectionListeners, invoked', published'[1])]_vars

C15_AccountsChanged ==
  [][/\ (EmitAccountsChanged(Null) /\ provider.kind = "browser") =>
          /\ connectionState' = ClearedState
          /\ activeAdapter' = NoAdapter
          /\ provider' = NoProvider
          /\ published' = <<ClearedState>>
          /\ \A l \in Range(connectionListeners) : TimesInvoked(invoked', l) >= 1
          /\ \A i \in 1..Len(invoked') : invoked'[i].state = ClearedState
     /\ (\E t \in BagToSet(tasks) : t.kind = "accountsChanged" /\ tasks' = DropTask(t)) =>
          /\ \A f \in DOMAIN connectionState \ {"account"} :
               connectionState'[f] = connectionState[f]
          /\ connectionState'.account \in {connectionState.account, walletAccount}
          /\ UNCHANGED <<provider, activeAdapter, adapters>>]_vars

\* the wallet reported an empty account list while a listener was subscribed
C15_Witness ==
  /\ last.act = "disconnect"
  /\ walletAccount = Null
  /\ walletHandlers # {}
  /\ published = <<ClearedState>>
  /\ invoked # <<>>

\* the awaited getNetwork of a chainChanged handler answered in this step
ChainChangedHandled ==
  /\ \E t \in BagToSet(tasks) : t.kind = "chainChanged" /\ tasks' = DropTask(t)
  /\ published' # <<>>

\* some adapter of the registry accepts chain id c
SomeCompatible(reg, c) == \E k \in 1..Len(reg) : IsCompatible(reg[k], c)

\* C16: when a chainChanged event to chain id c is handled on a wallet
\* connection, a compatible active adapter stays active, otherwise the active
\* adapter becomes the result of findAdapterForChainId(c), null when no
\* network is configured for c; the adapter is swapped before the state with
\* the new chainId and network is published; status, account and provider
\* keep their values
C16_ChainChanged ==
  [][(ChainChangedHandled /\ provider.kind = "browser") =>
       /\ IF activeAdapter # NoAdapter /\ IsCompatible(activeAdapter, walletChain)
          THEN UNCHANGED <<activeAdapter, adapters>>
          ELSE <<activeAdapter', adapters'>> =
                 FindAdapterForChainId(adapters, walletChain, provider, adapterCount + 1)
       /\ (/\ walletChain \notin {ChainIdOf(n) : n \in Networks}
           /\ ~SomeCompatible(adapters, walletChain)) => activeAdapter' = NoAdapter
       /\ published' = <<[connectionState EXCEPT !.chainId = walletChain,
                                                  !.network = walletChain]>>
       /\ connectionState' = published'[1]
       /\ \A i \in 1..Len(invoked') :
            /\ invoked'[i].seen.adapter = activeAdapter'
            /\ invoked'[i].state = connectionState']_vars

\* the wallet moved to a chain that is not configured and the listener was
\* told after the adapter had been dropped
C16_Witness ==
  /\ last.act = "chainChanged"
  /\ connectionState.chainId = 999
  /\ activeAdapter = NoAdapter
  /\ adapters # <<>>
  /\ invoked # <<>>
  /\ connectionState.status = CONNECTED

\* the registry keys that hold an adapter
Keys(reg) == {reg[i].key : i \in 1..Len(reg)}

\* the adapter stored under key n
Stored(reg, n) == reg[IndexOfKey(reg, n)]

\* the step just taken removed the adapter of n or cleared the registry
Released(step, n) ==
  \/ step.act = "clearAdapters"
  \/ step.act = "removeAdapter" /\ step.net = n

\* C17: createAdapter(n, _) returns the adapter it leaves stored under n; a
\* stored adapter stays stored, the same instance, until removeAdapter(n) or
\* clearAdapters(); a createAdapter(n, _) that finds one returns that instance
\* whatever transport is passed and constructs nothing; and the registry
\* never holds two adapters for one network
C17_CreateAdapterIdempotent ==
  [][/\ last'.act = "createAdapter" =>
          /\ last'.net \in Keys(adapters')
          /\ last'.adapter = Stored(adapters', last'.net)
          /\ last'.net \in Keys(adapters) =>
               /\ last'.adapter = Stored(adapters, last'.net)
               /\ UNCHANGED <<adapters, adapterCount>>
     /\ \A n \in Keys(adapters) :
          ~Released(last', n) => n \in Keys(adapters') /\ Stored(adapters', n) = Stored(adapters, n)
     /\ \A i, j \in 1..Len(adapters') :
          adapters'[i].key = adapters'[j].key => i = j]_vars

\* createAdapter returned the adapter made earlier for another transport
C17_Witness ==
  /\ last.act = "createAdapter"
  /\ last.adapter.prov # last.prov
  /\ Len(adapters) >= 2

\* C18: after findAdapterForChainId(c, _) has returned, the same call made
\* again with any transport returns the identical adapter and instantiates
\* nothing; for a chain id that no stored adapter accepts and no configured
\* network has, the call returns null and stores nothing
C18_FindAdapterRepeatable ==
  [][last'.act = "findAdapterForChainId" =>
       /\ \A p \in Transports :
            FindAdapterForChainId(adapters', last'.chain, p, adapterCount' + 1)
              = <<last'.adapter, adapters'>>
       /\ (/\ ~SomeCompatible(adapters, last'.chain)
           /\ last'.chain \notin {ChainIdOf(n) : n \in Networks}) =>
            /\ last'.adapter = NoAdapter
            /\ UNCHANGED <<adapters, adapterCount>>]_vars

\* findAdapterForChainId(42161, _) returned the adapter stored by an earlier
\* call, which no compatibility scan finds
C18_Witness ==
  /\ last.act = "findAdapterForChainId"
  /\ last.chain = 42161
  /\ last.adapter # NoAdapter
  /\ last.adapter.prov # last.prov

\* C19: the registry never holds two distinct adapters that both report
\* isCompatible(c) for the same chain id c
C19_OneAdapterPerChain ==
  \A c \in ChainInputs : \A i, j \in 1..Len(adapters) :
    (IsCompatible(adapters[i], c) /\ IsCompatible(adapters[j], c)) => i = j

\* the name/value pairs of an optional additionalParams object
ParamPairs(opt) == IF opt = <<>> THEN {} ELSE Range(opt[1])

\* two descriptors of the same logical query: same prefix, same address up
\* to letter case, same chainId, blockNumber and network, same parameter
\* name/value pairs
SameDescriptor(o1, o2) ==
  /\ o1.prefix = o2.prefix
  /\ o1.chainId = o2.chainId
  /\ o1.blockNumber = o2.blockNumber
  /\ o1.network = o2.network
  /\ (o1.address = <<>>) = (o2.address = <<>>)
  /\ o1.address # <<>> => ToLowerCase(o1.address[1]) = ToLowerCase(o2.address[1])
  /\ (o1.additionalParams = <<>>) = (o2.additionalParams = <<>>)
  /\ ParamPairs(o1.additionalParams) = ParamPairs(o2.additionalParams)

\* C20: the key returned for a descriptor is the key of every descriptor of
\* the same logical query, whatever the letter case of the address and the
\* insertion order of the additional parameters
C20_GenerateKeyDeterministic ==
  last.act = "generateKey" =>
    \A o \in KeyInputs : SameDescriptor(o, last.options) => GenerateKey(o) = last.key

\* a key was made for a descriptor that has an equivalent with another
\* address case and another insertion order of two parameters
C20_Witness ==
  /\ last.act = "generateKey"
  /\ \E o \in KeyInputs :
       /\ SameDescriptor(o, last.options)
       /\ o.address # last.options.address
       /\ o.additionalParams # last.options.additionalParams

\* the step just taken is the call act(k) on the cache
Called(act, k) == last'.act = act /\ last'.key = k

\* the expiry time of an entry has passed at time t
ExpiryPassed(entry, t) == entry.expiresAt.kind = "num" /\ entry.expiresAt.n < t

\* the key has no entry in memory and no item in the durable namespace
Gone(m, st, k) == ~MapHas(m, k) /\ StorageIndex(st, FullKey(k)) = 0

\* C21: an entry stored by set(key, v, {ttl: 0}) is a miss for every get(key)
\* and has(key) made at a strictly later time, while no other set of the key
\* intervenes
C21_ZeroTtlMisses ==
  [][\A k \in ExpiryKeys :
       (/\ MapHas(cache, k)
        /\ MapGet(cache, k).expiresAt = ExpiresAt(0, MapGet(cache, k).timestamp)
        /\ MapGet(cache, k).timestamp < now) =>
         /\ Called("get", k) => last'.ret = Null
         /\ Called("has", k) => last'.ret = FALSE]_vars

\* C22: set stores the entry with expiry now + ttl when the options give a
\* ttl and with an unbounded expiry when they give none, so that an entry set
\* without a ttl is never expired
C22_ExpiryFromTtl ==
  [][\A k \in ExpiryKeys : \A v \in Values : \A o \in ExpiryOptions :
       Set(k, v, o, Accepted) =>
         MapGet(cache', k).expiresAt =
           IF o.ttl = <<>> THEN Infinity ELSE Num(now + o.ttl[1])]_vars

\* C24: get(key) returns the stored value iff the key is present and its
\* expiry has not passed; a get or has on a present entry whose expiry has
\* passed removes it from memory and from durable storage and reports a miss,
\* and a get or has on an absent key reports a miss and removes nothing
C24_GetRemovesExpired ==
  [][\A k \in ExpiryKeys :
       (Called("get", k) \/ Called("has", k)) =>
         IF MapHas(cache, k) /\ ~ExpiryPassed(MapGet(cache, k), now)
         THEN /\ last'.ret = IF last'.act = "get" THEN MapGet(cache, k).value ELSE TRUE
              /\ UNCHANGED <<cache, storage>>
         ELSE /\ last'.ret = IF last'.act = "get" THEN Null ELSE FALSE
              /\ IF MapHas(cache, k)
                 THEN /\ Gone(cache', storage', k)
                      /\ last'.removed = <<k>>
                 ELSE /\ UNCHANGED <<cache, storage>>
                      /\ last'.removed = <<>>]_vars

\* a get found a persisted entry whose expiry had passed and removed it
C24_Witness ==
  /\ last.act = "get"
  /\ last.removed = <<last.key>>
  /\ last.ret = Null
  /\ storage = <<ForeignItem>>
  /\ probe.gets = 2

\* the entries of a map whose keys are not among ks, in their order
Without(m, ks) == SelectSeq(m, LAMBDA x : x.key \notin ks)

\* the items of a storage that do not mirror one of the keys ks, in their order
ItemsWithout(st, ks) == SelectSeq(st, LAMBDA x : x.key \notin {FullKey(k) : k \in ks})

\* the smallest insertion timestamp among the entries of a map
SmallestTimestamp(m) ==
  CHOOSE t \in {m[i].entry.timestamp : i \in 1..Len(m)} :
    \A i \in 1..Len(m) : t <= m[i].entry.timestamp

\* C23: when the cache holds N entries, set with maxSize = N for a key not
\* yet present evicts exactly one entry, one with the smallest insertion
\* timestamp, from memory and from durable storage, raises the evictions
\* counter by one, stores the new entry and leaves the size N
C23_EvictsOldest ==
  [][\A k \in PlainKeys : \A v \in Values : \A o \in SizeOptions :
       (/\ Set(k, v, o, Accepted)
        /\ o.maxSize = <<Len(cache)>>
        /\ ~MapHas(cache, k)) =>
         /\ Len(last'.removed) = 1
         /\ MapHas(cache, last'.removed[1])
         /\ MapGet(cache, last'.removed[1]).timestamp = SmallestTimestamp(cache)
         /\ Gone(cache', storage', last'.removed[1])
         /\ stats'.evictions = stats.evictions + 1
         /\ MapHas(cache', k)
         /\ MapGet(cache', k).value = v
         /\ Len(cache') = Len(cache)]_vars

\* C25: hits + misses is the number of get calls made, evictions the number
\* of entries set evicted for capacity, the size getStats reports the number
\* of entries in memory, and only get changes hits and misses and only set
\* changes evictions
C25_StatsExact ==
  /\ [](/\ stats.hits + stats.misses = probe.gets
        /\ stats.evictions = probe.evictions
        /\ last.act = "getStats" =>
             last.ret = [size |-> Len(cache), hits |-> stats.hits,
                         misses |-> stats.misses, evictions |-> stats.evictions])
  /\ [][/\ last'.act \notin {"get", "reload"} =>
             stats'.hits = stats.hits /\ stats'.misses = stats.misses
        /\ last'.act = "get" =>
             stats'.hits + stats'.misses = stats.hits + stats.misses + 1
        /\ last'.act \notin {"set", "reload"} => stats'.evictions = stats.evictions
        /\ last'.act = "set" =>
             stats'.evictions = stats.evictions + Len(last'.removed)]_vars

\* the statistics were read after a hit, a miss and a capacity eviction
C25_Witness ==
  /\ last.act = "getStats"
  /\ last.ret.hits = 1
  /\ last.ret.misses = 1
  /\ last.ret.evictions = 1
  /\ last.ret.size = 1

\* s is an initial part of k
IsPrefix(s, k) == Len(s) <= Len(k) /\ \A i \in 1..Len(s) : k[i] = s[i]

\* the keys invalidate(s) is to remove: s alone when it is a stored key,
\* otherwise every stored key that starts with s
ToInvalidate(m, s) ==
  IF \E i \in 1..Len(m) : m[i].key = s
  THEN {s}
  ELSE {m[i].key : i \in {j \in 1..Len(m) : IsPrefix(s, m[j].key)}}

\* C26: invalidate(s) removes the entry of s alone when s is a stored key and
\* otherwise every entry whose key starts with s, from memory and from durable
\* storage, and keeps every other entry and item as it is
C26_InvalidateFrame ==
  [][\A s \in PlainKeys :
       Called("invalidate", s) =>
         /\ cache' = Without(cache, ToInvalidate(cache, s))
         /\ storage' = ItemsWithout(storage, ToInvalidate(cache, s))]_vars

\* invalidate removed the entry stored under the empty key and kept an entry
\* whose key starts with it
C26_Witness ==
  /\ last.act = "invalidate"
  /\ last.key = <<>>
  /\ last.removed = <<last.key>>
  /\ MapHas(cache, <<"a">>)
  /\ StorageIndex(storage, FullKey(<<"a">>)) # 0
  /\ StorageIndex(storage, FullKey(<<>>)) = 0

\* C28: after clear() the map is empty, durable storage holds no item under
\* the namespace prefix, and the items outside the namespace are untouched
C28_ClearEmptiesStorage ==
  [][last'.act = "clear" =>
       /\ cache' = <<>>
       /\ storage' = SelectSeq(storage, LAMBDA x : ~IsPrefix(<<StoragePrefix>>, x.key))]_vars

\* a persisted item whose expiry has not passed at time t
Unexpired(data, t) ==
  data.expiresAt.kind = "null" \/ (data.expiresAt.kind = "num" /\ data.expiresAt.n >= t)

\* C29: after construction the map holds exactly the persisted entries that
\* are not yet expired, each under its key without the namespace prefix, and
\* durable storage holds no expired namespaced item any more
C29_LoadKeepsUnexpired ==
  [][(last'.act = "reload" \/ (last'.act = "getInstance" /\ ~instance)) =>
       \A i \in 1..Len(storage) :
         IsPrefix(<<StoragePrefix>>, storage[i].key) =>
           IF Unexpired(storage[i].data, now)
           THEN /\ MapHas(cache', Tail(storage[i].key))
                /\ MapGet(cache', Tail(storage[i].key)).value = storage[i].data.value
                /\ Len(cache') = Cardinality({j \in 1..Len(storage) :
                                    /\ IsPrefix(<<StoragePrefix>>, storage[j].key)
                                    /\ Unexpired(storage[j].data, now)})
           ELSE /\ ~MapHas(cache', Tail(storage[i].key))
                /\ StorageIndex(storage', storage[i].key) = 0]_vars

\* the keys generateKey made from a descriptor whose address is a up to
\* letter case
KeysOfAddress(a) ==
  {GenerateKey(d) : d \in {x \in CachedDescriptors :
     x.address # <<>> /\ ToLowerCase(x.address[1]) = ToLowerCase(a)}}

\* C27: invalidateForAddress(a) removes from memory and from durable storage
\* every entry whose key generateKey made with an address equal to a up to
\* letter case, and leaves every other entry as it is
C27_InvalidateForAddress ==
  [][\A a \in AddressInputs :
       Called("invalidateForAddress", a) =>
         /\ cache' = Without(cache, KeysOfAddress(a))
         /\ storage' = ItemsWithout(storage, KeysOfAddress(a))]_vars

\* the key has an entry in memory, or an item in durable storage, whose expiry
\* has passed
ExpiredSomewhere(k) ==
  \/ MapHas(cache, k) /\ ExpiryPassed(MapGet(cache, k), now)
  \/ /\ StorageIndex(storage, FullKey(k)) # 0
     /\ ExpiryPassed(storage[StorageIndex(storage, FullKey(k))].data, now)

\* C30: an entry whose expiry has passed is eventually removed from memory and
\* from durable storage without being read, each sweep removes every entry
\* expired at that moment and no other, and there is never more than one
\* sweep timer
C30_SweepRemovesExpired ==
  /\ \A k \in PlainKeys : ExpiredSomewhere(k) ~> ~ExpiredSomewhere(k)
  /\ [][last'.act = "cleanupExpiredEntries" =>
          /\ cache' = SelectSeq(cache, LAMBDA x : ~ExpiryPassed(x.entry, now))
          /\ \A k \in PlainKeys :
               MapHas(cache, k) /\ ExpiryPassed(MapGet(cache, k), now) =>
                 Gone(cache', storage', k)]_vars
  /\ [](timers <= 1)

\* the namespaced items of the storage other than the one of key k
OtherMirrored(st, k) ==
  {i \in 1..Len(st) : Namespaced(st[i].key) /\ st[i].key # FullKey(k)}

\* C31: a set that persists stores its entry in memory whatever the durable
\* write does and returns normally; a write refused for quota is followed by a
\* wipe of every namespaced durable entry and one more write (two attempts), a
\* write refused for another reason by neither a wipe nor a retry.
C31_WriteFailureHandled ==
  [][\A k \in QuotaKeys : \A v \in Values : \A w \in Writes :
       Set(k, v, NoOptions, w) =>
         /\ MapHas(cache', k) /\ MapGet(cache', k).value = v
         /\ last'.ret = Null
         /\ w[1] = "ok" => last'.attempts = 1 /\ ~last'.wiped
         /\ w[1] = "other" =>
              /\ last'.attempts = 1 /\ ~last'.wiped
              /\ storage' = ItemsWithout(storage, Range(last'.removed))
         /\ w[1] = "quota" =>
              /\ last'.attempts = 2
              /\ OtherMirrored(storage', k) = {}
              /\ (StorageIndex(storage', FullKey(k)) # 0) = (w[2] = "ok")]_vars

\* a step in which no call is started and no wallet event is emitted: what
\* happens in it is the completion of something already in flight
NothingStarted == stimuli' = stimuli

\* C32: after disconnect() has returned with the state reset, a step that
\* only completes a connect attempt or a wallet handler already in flight
\* leaves the Disconnected state, the null transport and the null adapter.
C32_DisconnectIsFinal ==
  [][(/\ DisconnectReturned
      /\ connectionState = ClearedState
      /\ NothingStarted) =>
       /\ connectionState' = ClearedState
       /\ provider' = NoProvider
       /\ activeAdapter' = NoAdapter]_vars

\* a connect attempt that has not resolved: connectRpcProvider inside its
\* race (called directly or by switchNetwork), connectBrowserWallet at an await
Unsettled(t) ==
  \/ t.kind = "connectRpc" /\ t.pc = "race"
  \/ t.kind = "connectWallet"

\* C33: once every connect attempt has settled, a Connected state is the
\* outcome of the attempt started last: its transport is the one constructed
\* last and is the transport of the manager, and over RPC the active adapter
\* is the one registered for the network of the state.
C33_NewestAttemptWins ==
  (/\ \A t \in BagToSet(tasks) : ~Unsettled(t)
   /\ connectionState.status = CONNECTED) =>
    /\ connectionState.provider.id = provCount
    /\ provider = connectionState.provider
    /\ provider.kind = "rpc" =>
         activeAdapter # NoAdapter /\ ChainIdOf(activeAdapter.key) = connectionState.chainId

\* the wallet emits accountsChanged, chainChanged or disconnect in this step
WalletEvent ==
  \/ \E a \in Accounts \cup {Null} : EmitAccountsChanged(a)
  \/ \E c \in WalletChains : EmitChainChanged(c)
  \/ EmitDisconnect

\* the manager has no wallet session: it is Disconnected or Connected over RPC
NoWalletSession ==
  \/ connectionState.status = DISCONNECTED
  \/ connectionState.status = CONNECTED /\ provider.kind = "rpc"

\* C34: a wallet event emitted while the manager is Disconnected or connected
\* over RPC changes neither the ConnectionState nor the transport nor the
\* active adapter.
C34_WalletEventsIgnored ==
  [][(WalletEvent /\ NoWalletSession) => UNCHANGED managerVars]_vars

\* C35: while the state is Connected and an adapter is active, the transport
\* the adapter is bound to is the transport in ConnectionState.provider.
C35_AdapterTransport ==
  (connectionState.status = CONNECTED /\ activeAdapter # NoAdapter) =>
    activeAdapter.prov = connectionState.provider

\* networkConfig.chainId of an adapter
ConfiguredChain(a) == ChainIdOf(a.cfg)

\* C36: an adapter returned by findAdapterForChainId(c, _) for the chain id c
\* of a configured network reports isCompatible(c) and has
\* networkConfig.chainId = c, whatever the registry held before.
C36_FindAdapterCompatible ==
  (/\ last.act = "findAdapterForChainId"
   /\ last.chain \in {ChainIdOf(n) : n \in Networks}
   /\ last.adapter # NoAdapter) =>
    /\ IsCompatible(last.adapter, last.chain)
    /\ ConfiguredChain(last.adapter) = last.chain

\* C37: the adapter createAdapter(n, _) returns for a configured network n
\* has n as its network field, the table entry of n as its networkConfig, and
\* reports isCompatible of the chain id configured for n.
C37_AdapterIdentity ==
  last.act = "createAdapter" =>
    /\ last.adapter.network = last.net
    /\ last.adapter.cfg = last.net
    /\ IsCompatible(last.adapter, ChainIdOf(last.net))

\* C38: when every set passes the same maxSize N, the map never holds more
\* than N entries, whatever is set, read, invalidated, cleared, swept or
\* loaded again from the durable storage.
C38_SizeBounded ==
  \A o \in BoundedOptions : Len(cache) <= MergedOptions(o).maxSize

\* C39: set on a key that is present replaces its entry by the new value,
\* timestamp and expiry and removes no other entry: the other entries, the
\* evictions counter and the size are as before, also at full capacity.
C39_ResetReplacesOnly ==
  [][\A k \in PlainKeys : \A o \in SizeOptions :
       (Set(k, "v1", o, Accepted) /\ MapHas(cache, k)) =>
         /\ MapHas(cache', k)
         /\ MapGet(cache', k) = CacheEntry("v1", now, ExpiresAt(MergedOptions(o).ttl, now))
         /\ Without(cache', {k}) = Without(cache, {k})
         /\ stats'.evictions = stats.evictions
         /\ Len(cache') = Len(cache)]_vars

\* C40: every namespaced durable item belongs to a key that is in the map and
\* holds the value and expiry of that key's entry, as JSON writes them.
C40_MirrorInSync ==
  \A i \in 1..Len(storage) :
    Namespaced(storage[i].key) =>
      /\ MapHas(cache, Tail(storage[i].key))
      /\ storage[i].data = JsonStringify(MapGet(cache, Tail(storage[i].key)))

====
